---- MODULE Spec2Model ----
(***************************************************************************)
(* A model of the document-ingestion pipeline of library-shasan.           *)
(*                                                                         *)
(* SpecWork  the work-set computation of the ingestion scripts, as a pure   *)
(*           function of the candidate list, the processed identities and  *)
(*           the --reprocess flag.                                         *)
(* SpecManifest  the run of the manifest-driven ingestion script (its      *)
(*           documentPayload / upsertDocumentPending / runWithConcurrency),*)
(*           against the same record store.                                *)
(* SpecRestart   the same script killed inside a run and started again.    *)
(* SpecScan  the paged setup scans fetchSourceFiles and fetchProcessedIds. *)
(* SpecDoc   the inner page pool of one document worker of                 *)
(*           scripts/index_granth_from_db_ocr500.mjs: runConcurrent over   *)
(*           the page numbers, one step per awaited call of a page task.   *)
(* Spec      the run of scripts/index_granth_from_db_ocr500.mjs: setup     *)
(*           (catalog scan, processed-identity scan, work-set filter),     *)
(*           the outer document pool (runConcurrent) and the document      *)
(*           worker with its writes to the documents / document_pages      *)
(*           tables and to object storage, over any number of successive   *)
(*           runs against the same store.                                  *)
(* SpecSetup the same run with its setup steps (environment, tools, the    *)
(*           two scans) and --dry-run.                                     *)
(* SpecArtifact  the same run with --max-pages.                            *)
(* SpecKill  the same runs, the last one ended by a kill of the process.   *)
(* SpecDb    the runs of scripts/index_granth_from_db.mjs.                 *)
(* SpecCsv   a row of the artifact escaped by csvEscape and read back by   *)
(*           parseCsvRows.                                                 *)
(* SpecChunks    the chunked upsert of a document's stored pages.          *)
(* SpecPools the outer document pool and the inner page pools together.    *)
(* SpecPoolsLive  the same pools with every started call settling.         *)
(* SpecUpload    the same run with the outcome of uploadCsv recorded.      *)
(* SpecSlice the --startAt / --limit slice of the three scripts.           *)
(* SpecList  listAllUploadThingFiles over any sequence of responses.       *)
(* SpecSync  sync-ocr-to-supabase: existing-URL scan, filter, inserts.     *)
(* SpecCovers    the run of scripts/generate_granth_covers.mjs.            *)
(***************************************************************************)
EXTENDS Integers, Sequences, FiniteSets, TLC

VARIABLES
    documents,        \* DOCS_TABLE: identity -> row (status "absent": no row)
    document_pages,   \* PAGES_TABLE: identity -> set of stored pages
    storage,          \* object storage: the objects held, by customId, with their rows
    phase,            \* "idle" | "pool" | "exited": position of main()
    args,             \* parsed flags and env of the current run
    batch,            \* main(): batch (sequence of catalog rows)
    processedIds,     \* main(): processedIds as scanned at setup
    next,             \* runConcurrent: the shared cursor (0-based)
    task,             \* runConcurrent: the tasks, each with the worker's locals
    outcome,          \* per batch index: "none" | "running" | "ok" | "failed"
    ok,               \* main(): ok counter
    failed,           \* main(): failed counter
    exitCode,         \* process exit code (-1 while the process runs)
    refAtStart,       \* history: task -> the record's csv_url, csv_key when its handler began
    doc,              \* SpecDoc: the document worker around the page pool
    pageTask,         \* SpecDoc: the tasks of the inner runConcurrent
    pnext,            \* SpecDoc: the cursor of the inner runConcurrent
    pageResults,      \* SpecDoc: pageResults, in push order
    images,           \* SpecDoc: the pages whose rendered image is on disk
    input,            \* the arguments drawn for a pure function
    result            \* what the function returned for them

storeVars == <<documents, document_pages, storage>>
runVars   == <<phase, args, batch, processedIds, next, task, outcome, ok, failed, exitCode>>
docVars   == <<doc, pageTask, pnext, pageResults, images>>
pureVars  == <<input, result>>
vars      == <<documents, document_pages, storage, phase, args, batch, processedIds,
               next, task, outcome, ok, failed, exitCode, refAtStart,
               doc, pageTask, pnext, pageResults, images, input, result>>

---------------------------------------------------------------------------
(* Bounds of the model *)

MaxConcurrency == 2      \* --concurrency is drawn from 1..MaxConcurrency
MaxRows == 2             \* SpecWork: a candidate list has at most MaxRows rows
MaxPages == 3            \* SpecDoc: a PDF has 0..MaxPages pages
MaxPageConcurrency == 2  \* --page-concurrency is drawn from 1..MaxPageConcurrency
MaxScanRows == 4         \* SpecScan: a scanned table has 0..MaxScanRows matching rows
MaxPageSize == 2         \* SpecScan: the page size is drawn from 1..MaxPageSize

(* Program constants *)
ShortErrMax == 1800
PSM_PRIMARY == 6
PSM_FALLBACK == 3

NULL == "null"

\* JavaScript truthiness of a nullable string column
Truthy(v) == v # NULL /\ v # ""

Min(a, b) == IF a < b THEN a ELSE b

---------------------------------------------------------------------------
(* The catalog (SOURCE_TABLE), in ascending id order: a row identified by  *)
(* its custom_id, a row with neither custom_id nor ut_key, and a row with  *)
(* a ut_key but no URL.                                                    *)

Catalog ==
    << [id |-> 1, custom_id |-> "A",  ut_key |-> "kA", ufs_url |-> "u1"],
       [id |-> 2, custom_id |-> NULL, ut_key |-> NULL, ufs_url |-> "u2"],
       [id |-> 3, custom_id |-> NULL, ut_key |-> "K",  ufs_url |-> NULL] >>

\* const customId = file.custom_id || file.ut_key || `granth_${file.id}`
customId(file) ==
    IF Truthy(file.custom_id) THEN file.custom_id
    ELSE IF Truthy(file.ut_key) THEN file.ut_key
    ELSE "granth_" \o ToString(file.id)

Identities == { customId(Catalog[i]) : i \in DOMAIN Catalog }

\* The page numbers of the PDF served at a row's URL: one page for the
\* first row, two for the second.
PdfPages(file) == IF file.id = 1 THEN {1} ELSE {1, 2}

---------------------------------------------------------------------------
(* Error texts.  A text is modelled by its length and by whether it ends   *)
(* in the "..." that shortErr appends.                                     *)

NullText == [null |-> TRUE, len |-> 0, cut |-> FALSE]

Text(n) == [null |-> FALSE, len |-> n, cut |-> FALSE]

\* shortErr without the cut: the message is kept whole
shortErrWhole(len, max) == Text(len)

\* shortErr(error, max = 1800)
shortErr(len, max) ==
    IF len > max THEN [null |-> FALSE, len |-> max + 3, cut |-> TRUE]
    ELSE Text(len)

\* The lengths of error.stack drawn for a thrown error: the longest text
\* that shortErr keeps whole, and the shortest that it cuts.
ErrLens == {ShortErrMax, ShortErrMax + 1}

---------------------------------------------------------------------------
(* The record store (DOCS_TABLE).  An upsert with onConflict: "custom_id"  *)
(* inserts the row or overwrites exactly the columns of its payload.       *)

AbsentRow == [status |-> "absent", error |-> NullText, csv_url |-> NULL, csv_key |-> NULL]

\* upsertDocPending without `error: null` in its payload
upsertDocPendingKeepsError(docs, cid) ==
    [docs EXCEPT ![cid] = [@ EXCEPT !.status = "pending"]]

\* upsertDocPending never sent: the record stays as it was
upsertDocPendingSkipped(docs, cid) == docs

\* upsertDocPending: { ...payload, status: "pending", error: null }
upsertDocPending(docs, cid) ==
    [docs EXCEPT ![cid] = [@ EXCEPT !.status = "pending", !.error = NullText]]

\* upsertDocFailed with csv_url: null, csv_key: null in its payload
upsertDocFailedClearsRef(docs, cid, msg) ==
    [docs EXCEPT ![cid] = [status |-> "failed", error |-> msg,
                           csv_url |-> NULL, csv_key |-> NULL]]

\* upsertDocFailed: { ...payload, status: "failed", error: errorMessage }
upsertDocFailed(docs, cid, msg) ==
    [docs EXCEPT ![cid] = [@ EXCEPT !.status = "failed", !.error = msg]]

\* upsertDocFailed throwing on a store error, as upsertDocPending does
upsertDocFailedThrows == "throw"

\* What upsertDocFailed does when the store reports an error: it logs it.
upsertDocFailedOnError == "log"

\* markDocProcessed: update(...).eq("custom_id", customId); no row, no change
markDocProcessed(docs, cid, csvUrl, csvKey) ==
    IF docs[cid].status = "absent" THEN docs
    ELSE [docs EXCEPT ![cid] = [status |-> "processed", error |-> NullText,
                                csv_url |-> csvUrl, csv_key |-> csvKey]]

\* fetchProcessedIds: the custom_id of every row with status "processed"
fetchProcessedIds(docs) ==
    { cid \in DOMAIN docs : docs[cid].status = "processed" /\ Truthy(cid) }

---------------------------------------------------------------------------
(* Work set of main() *)

\* const withUrl = sourceFiles.filter((f) => f.ufs_url)
withUrl(sourceFiles) == SelectSeq(sourceFiles, LAMBDA f : Truthy(f.ufs_url))

\* the predicate of withUrl.filter(...) that yields `filtered`
keepFile(file, processed, reprocess) ==
    IF reprocess THEN TRUE
    ELSE LET identity == IF Truthy(file.custom_id) THEN file.custom_id ELSE file.ut_key
         IN  IF ~Truthy(identity) THEN TRUE ELSE identity \notin processed

filtered(sourceFiles, processed, reprocess) ==
    SelectSeq(withUrl(sourceFiles), LAMBDA file : keepFile(file, processed, reprocess))

---------------------------------------------------------------------------
(* uploadCsv.  `first` is the result of utapi.uploadFiles, `lookup` that   *)
(* of utapi.getFileUrls(csvCustomId), which is only asked after an error.  *)

\* whether the customId derived from `cid` holds an object
HasObject(store, cid) == \E o \in store : o.customId = cid

\* a successful uploadFiles of the CSV written from `rows`
PutObject(store, cid, rows) == store \cup {[customId |-> cid, rows |-> rows]}

ObjUrl  == "url"     \* the URL the store gives an object
ObjKey  == "key"     \* the key the store gives an object
ConsUrl == "cons"    \* `https://${appId}.ufs.sh/f/${csvCustomId}`

UploadOk(ufsUrl, url) == [kind |-> "ok", ufsUrl |-> ufsUrl, url |-> url, key |-> ObjKey, match |-> FALSE]
UploadErr(match) == [kind |-> "error", ufsUrl |-> NULL, url |-> NULL, key |-> NULL, match |-> match]

\* The responses of uploadFiles: a customId that holds an object is refused
\* with a conflict ("already exists"); any upload can fail otherwise.
UploadResponses(exists) ==
    IF exists THEN {UploadErr(TRUE), UploadErr(FALSE)}
    ELSE {UploadOk(ObjUrl, ObjUrl), UploadOk(NULL, ObjUrl), UploadErr(FALSE)}

LookupThrow == [kind |-> "throw", hit |-> FALSE, url |-> NULL, key |-> NULL]
LookupData(hit, url, key) == [kind |-> "data", hit |-> hit, url |-> url, key |-> key]

\* The responses of getFileUrls: it throws, or lists no file, or lists the
\* object held under the customId with its url and key.
LookupResponses(exists) ==
    {LookupThrow, LookupData(FALSE, NULL, NULL)}
    \cup (IF exists THEN {LookupData(TRUE, ObjUrl, ObjKey)} ELSE {})

Return(csvUrl, csvKey) == [throws |-> FALSE, csvUrl |-> csvUrl, csvKey |-> csvKey]
Throw == [throws |-> TRUE, csvUrl |-> NULL, csvKey |-> NULL]

\* a ?? b
Coalesce(a, b) == IF a # NULL THEN a ELSE b

\* uploadCsv whose conflict fallback is not guarded by `&& appId`
uploadCsvUnguarded(first, lookup, appId) ==
    IF first.kind = "ok"
    THEN Return(Coalesce(first.ufsUrl, Coalesce(first.url, NULL)), Coalesce(first.key, NULL))
    ELSE IF lookup.kind = "data" /\ lookup.hit /\ (Truthy(lookup.url) \/ Truthy(lookup.key))
    THEN Return(Coalesce(lookup.url, IF Truthy(appId) THEN ConsUrl ELSE NULL),
                Coalesce(lookup.key, NULL))
    ELSE IF first.match
    THEN Return(IF Truthy(appId) THEN ConsUrl ELSE NULL, NULL)
    ELSE Throw

uploadCsv(first, lookup, appId) ==
    IF first.kind = "ok"
    THEN Return(Coalesce(first.ufsUrl, Coalesce(first.url, NULL)), Coalesce(first.key, NULL))
    ELSE IF lookup.kind = "data" /\ lookup.hit /\ (Truthy(lookup.url) \/ Truthy(lookup.key))
    THEN Return(Coalesce(lookup.url, IF Truthy(appId) THEN ConsUrl ELSE NULL),
                Coalesce(lookup.key, NULL))
    ELSE IF first.match /\ Truthy(appId)
    THEN Return(ConsUrl, NULL)
    ELSE Throw

---------------------------------------------------------------------------
(* runConcurrent and the document worker of main()                         *)

\* one task per item, whatever the concurrency
numTasksPerItem(concurrency, nItems) == nItems

nextAfterPullStuck(cursor) == cursor

\* const idx = next; next += 1;
nextAfterPull(cursor) == cursor + 1

\* Array.from({ length: Math.min(concurrency, items.length) }, ...)
numTasks(concurrency, nItems) == Min(concurrency, nItems)

Tasks == 1 .. (IF MaxConcurrency > Len(Catalog) THEN MaxConcurrency ELSE Len(Catalog))

NoTask == [pc |-> "none", idx |-> 0, step |-> "", pages |-> {},
           csvUrl |-> NULL, csvKey |-> NULL, failWrite |-> "none", propagate |-> FALSE]

\* A task that has pulled the 0-based index i and entered the handler: the
\* handler runs up to its first await, the pending write.
Handling(i) == [NoTask EXCEPT !.pc = "pending", !.idx = i + 1]

Cid(t) == customId(batch[task[t].idx])

\* What the extraction steps of one document (download, page-count probe,
\* render and OCR of each page, sort and filter) hand to the rest of the
\* worker: an error thrown at one of the steps, or nonEmptyPages.
\* Here OCR finds text on every page of the PDF or on none; the page pool
\* itself, page by page, is the subject of SpecDoc.
ExtractResults(file) ==
    { [kind |-> "throw", step |-> s, pages |-> {}] : s \in {"download", "probe", "page"} }
    \cup { [kind |-> "pages", step |-> "", pages |-> P] : P \in {{}, PdfPages(file)} }

\* ThrowAt without `failed += 1`
ThrowAtUncounted(t, step) ==
    /\ task' = [task EXCEPT ![t] = [NoTask EXCEPT !.pc = "catch", !.idx = task[t].idx,
                                                  !.step = step]]
    /\ UNCHANGED failed
    /\ outcome' = [outcome EXCEPT ![task[t].idx] = "failed"]

\* An error thrown at `step` lands in the worker's catch block, which counts
\* the failure before it awaits the failed write.
ThrowAt(t, step) ==
    /\ task' = [task EXCEPT ![t] = [NoTask EXCEPT !.pc = "catch", !.idx = task[t].idx,
                                                  !.step = step]]
    /\ failed' = failed + 1
    /\ outcome' = [outcome EXCEPT ![task[t].idx] = "failed"]

NoRef == [csv_url |-> NULL, csv_key |-> NULL]

\* The variables of the other specifications, at rest
DocIdle ==
    /\ doc = [pc |-> "none"]
    /\ pageTask = << >>
    /\ pnext = 0
    /\ pageResults = << >>
    /\ images = {}

PureIdle ==
    /\ input = << >>
    /\ result = << >>

RunIdle ==
    /\ documents = [cid \in Identities |-> AbsentRow]
    /\ document_pages = [cid \in Identities |-> {}]
    /\ storage = {}
    /\ phase = "idle"
    /\ args = [reprocess |-> FALSE, concurrency |-> 1, appId |-> NULL]
    /\ batch = << >>
    /\ processedIds = {}
    /\ next = 0
    /\ task = [t \in Tasks |-> NoTask]
    /\ outcome = << >>
    /\ ok = 0
    /\ failed = 0
    /\ exitCode = -1
    /\ refAtStart = [t \in Tasks |-> NoRef]

Init ==
    /\ RunIdle
    /\ DocIdle
    /\ PureIdle

\* main() up to and including the call of runConcurrent(batch, ...): the
\* scans, the filter, and the creation of the tasks, each of which pulls an
\* index and runs its handler up to the first await.
StartRun(reprocess, concurrency, appId) ==
    /\ phase \in {"idle", "exited"}
    /\ LET seen == IF reprocess THEN {} ELSE fetchProcessedIds(documents)
           b    == filtered(Catalog, seen, reprocess)
           n    == IF Len(b) = 0 THEN 0 ELSE numTasks(concurrency, Len(b))
       IN  /\ args' = [reprocess |-> reprocess, concurrency |-> concurrency, appId |-> appId]
           /\ processedIds' = seen
           /\ batch' = b
           /\ next' = n
           /\ task' = [t \in Tasks |->
                         IF t <= n /\ t <= Len(b) THEN Handling(t - 1)
                         ELSE IF t <= n THEN [NoTask EXCEPT !.pc = "done"]
                         ELSE NoTask]
           /\ outcome' = [i \in 1 .. Len(b) |-> IF i <= n THEN "running" ELSE "none"]
           /\ ok' = 0
           /\ failed' = 0
           /\ phase' = IF Len(b) = 0 THEN "exited" ELSE "pool"
           /\ exitCode' = IF Len(b) = 0 THEN 0 ELSE -1
    /\ UNCHANGED storeVars
    /\ UNCHANGED <<refAtStart, docVars, pureVars>>

\* await upsertDocPending(supabase, docPayload)
DocPending(t) ==
    /\ phase = "pool"
    /\ task[t].pc = "pending"
    /\ \E storeErr \in BOOLEAN :
         IF storeErr
         THEN /\ ThrowAt(t, "pending")
              /\ UNCHANGED <<documents, ok>>
         ELSE /\ documents' = upsertDocPending(documents, Cid(t))
              /\ task' = [task EXCEPT ![t] = [@ EXCEPT !.pc = "extract"]]
              /\ UNCHANGED <<outcome, ok, failed>>
    /\ UNCHANGED <<document_pages, storage, phase, args, batch, processedIds, next, exitCode>>
    /\ UNCHANGED <<refAtStart, docVars, pureVars>>

\* downloadToFile ... pageResults.sort, filter, the empty-result check
DocExtract(t) ==
    /\ phase = "pool"
    /\ task[t].pc = "extract"
    /\ \E r \in ExtractResults(batch[task[t].idx]) :
         IF r.kind = "throw" THEN ThrowAt(t, r.step)
         ELSE IF r.pages = {} THEN ThrowAt(t, "empty")
         ELSE /\ task' = [task EXCEPT ![t] = [@ EXCEPT !.pc = "clear", !.pages = r.pages]]
              /\ UNCHANGED <<outcome, failed>>
    /\ UNCHANGED <<storeVars, phase, args, batch, processedIds, next, ok, exitCode>>
    /\ UNCHANGED <<refAtStart, docVars, pureVars>>

\* await clearPages(supabase, customId)
DocClearPages(t) ==
    /\ phase = "pool"
    /\ task[t].pc = "clear"
    /\ \E storeErr \in BOOLEAN :
         IF storeErr
         THEN /\ ThrowAt(t, "clear")
              /\ UNCHANGED document_pages
         ELSE /\ document_pages' = [document_pages EXCEPT ![Cid(t)] = {}]
              /\ task' = [task EXCEPT ![t] = [@ EXCEPT !.pc = "upsert"]]
              /\ UNCHANGED <<outcome, failed>>
    /\ UNCHANGED <<documents, storage, phase, args, batch, processedIds, next, ok, exitCode>>
    /\ UNCHANGED <<refAtStart, docVars, pureVars>>

\* the chunk loop and the last upsertPageChunk(supabase, chunk); closeCsv
DocUpsertPages(t) ==
    /\ phase = "pool"
    /\ task[t].pc = "upsert"
    /\ \E storeErr \in BOOLEAN :
         IF storeErr
         THEN /\ ThrowAt(t, "upsert")
              /\ UNCHANGED document_pages
         ELSE /\ document_pages' = [document_pages EXCEPT ![Cid(t)] = @ \cup task[t].pages]
              /\ task' = [task EXCEPT ![t] = [@ EXCEPT !.pc = "upload"]]
              /\ UNCHANGED <<outcome, failed>>
    /\ UNCHANGED <<documents, storage, phase, args, batch, processedIds, next, ok, exitCode>>
    /\ UNCHANGED <<refAtStart, docVars, pureVars>>

\* const { csvUrl, csvKey } = await uploadCsv(...)
DocUpload(t) ==
    /\ phase = "pool"
    /\ task[t].pc = "upload"
    /\ \E first \in UploadResponses(HasObject(storage, Cid(t))),
          lookup \in LookupResponses(HasObject(storage, Cid(t))) :
         LET r == uploadCsv(first, lookup, args.appId)
         IN  /\ storage' = IF first.kind = "ok"
                            THEN PutObject(storage, Cid(t), task[t].pages) ELSE storage
             /\ IF r.throws
                THEN ThrowAt(t, "upload")
                ELSE /\ task' = [task EXCEPT ![t] = [@ EXCEPT !.pc = "mark",
                                     !.csvUrl = r.csvUrl, !.csvKey = r.csvKey]]
                     /\ UNCHANGED <<outcome, failed>>
    /\ UNCHANGED <<documents, document_pages, phase, args, batch, processedIds, next, ok, exitCode>>
    /\ UNCHANGED <<refAtStart, docVars, pureVars>>

\* await markDocProcessed(supabase, customId, csvUrl, csvKey); ok += 1
DocMarkProcessed(t) ==
    /\ phase = "pool"
    /\ task[t].pc = "mark"
    /\ \E storeErr \in BOOLEAN :
         IF storeErr
         THEN /\ ThrowAt(t, "mark")
              /\ UNCHANGED <<documents, ok>>
         ELSE /\ documents' = markDocProcessed(documents, Cid(t), task[t].csvUrl, task[t].csvKey)
              /\ ok' = ok + 1
              /\ outcome' = [outcome EXCEPT ![task[t].idx] = "ok"]
              /\ task' = [task EXCEPT ![t] = [NoTask EXCEPT !.pc = "finally", !.idx = task[t].idx]]
              /\ UNCHANGED failed
    /\ UNCHANGED <<document_pages, storage, phase, args, batch, processedIds, next, exitCode>>
    /\ UNCHANGED <<refAtStart, docVars, pureVars>>

\* catch (error) { ...; await upsertDocFailed(supabase, docPayload, msg) }
DocCatch(t) ==
    /\ phase = "pool"
    /\ task[t].pc = "catch"
    /\ \E storeErr \in BOOLEAN, len \in ErrLens :
         IF storeErr
         THEN /\ task' = [task EXCEPT ![t] = [@ EXCEPT !.pc = "finally", !.step = "",
                              !.failWrite = "error",
                              !.propagate = (upsertDocFailedOnError = "throw")]]
              /\ UNCHANGED documents
         ELSE /\ documents' = upsertDocFailed(documents, Cid(t), shortErr(len, ShortErrMax))
              /\ task' = [task EXCEPT ![t] = [@ EXCEPT !.pc = "finally", !.step = "",
                              !.failWrite = "ok"]]
    /\ UNCHANGED <<document_pages, storage, phase, args, batch, processedIds, next,
                   outcome, ok, failed, exitCode>>
    /\ UNCHANGED <<refAtStart, docVars, pureVars>>

\* finally { closeCsv; unlinkSafe(pdfPath); unlinkSafe(csvPath) }, the return
\* of the handler, and the task's next turn of its loop: idx = next; next += 1
DocFinally(t) ==
    /\ phase = "pool"
    /\ task[t].pc = "finally"
    /\ IF task[t].propagate
       THEN /\ task' = [task EXCEPT ![t] = [@ EXCEPT !.pc = "rejected"]]
            /\ UNCHANGED <<next, outcome>>
       ELSE /\ next' = nextAfterPull(next)
            /\ IF next >= Len(batch)
               THEN /\ task' = [task EXCEPT ![t] = [NoTask EXCEPT !.pc = "done"]]
                    /\ UNCHANGED outcome
               ELSE /\ task' = [task EXCEPT ![t] = Handling(next)]
                    /\ outcome' = [outcome EXCEPT ![next + 1] = "running"]
    /\ UNCHANGED <<storeVars, phase, args, batch, processedIds, ok, failed, exitCode>>
    /\ UNCHANGED <<refAtStart, docVars, pureVars>>

\* await Promise.all(workers) settles: it resolves when every task has
\* returned (main logs the summary and the process ends with code 0) and
\* rejects as soon as one task has rejected (main().catch: process.exit(1)).
MainResume ==
    /\ phase = "pool"
    /\ \/ \A t \in Tasks : task[t].pc \in {"none", "done"}
       \/ \E t \in Tasks : task[t].pc = "rejected"
    /\ phase' = "exited"
    /\ exitCode' = IF \E t \in Tasks : task[t].pc = "rejected" THEN 1 ELSE 0
    /\ UNCHANGED <<storeVars, args, batch, processedIds, next, task, outcome, ok, failed>>
    /\ UNCHANGED <<refAtStart, docVars, pureVars>>

Next ==
    \/ \E reprocess \in BOOLEAN, concurrency \in 1 .. MaxConcurrency, appId \in {NULL, "app"} :
         StartRun(reprocess, concurrency, appId)
    \/ \E t \in Tasks : DocPending(t)
    \/ \E t \in Tasks : DocExtract(t)
    \/ \E t \in Tasks : DocClearPages(t)
    \/ \E t \in Tasks : DocUpsertPages(t)
    \/ \E t \in Tasks : DocUpload(t)
    \/ \E t \in Tasks : DocMarkProcessed(t)
    \/ \E t \in Tasks : DocCatch(t)
    \/ \E t \in Tasks : DocFinally(t)
    \/ MainResume

Spec == Init /\ [][Next]_vars

---------------------------------------------------------------------------
(* Claims checked under Spec *)

InFlight == { t \in Tasks : task[t].pc \notin {"none", "done", "rejected"} }

AllowedTransitions ==
    { <<"absent", "pending">>, <<"pending", "processed">>, <<"pending", "failed">>,
      <<"failed", "pending">>, <<"processed", "pending">> }

\* C1: every change of a record's status is one of absent->pending,
\* pending->processed, pending->failed, failed->pending, processed->pending.
C1_StatusMachine ==
    [][\A cid \in Identities :
          documents'[cid].status # documents[cid].status
          => <<documents[cid].status, documents'[cid].status>> \in AllowedTransitions]_vars

\* C2: in a default (non-reprocess) run no worker is started for a document
\* whose record was processed when the run began.
C2_ProcessedNotResubmitted ==
    (phase = "pool" /\ ~args.reprocess)
    => \A t \in InFlight : Cid(t) \notin processedIds

C5_ErrorText ==
    \A cid \in Identities :
        /\ documents[cid].status = "failed"
           => ~documents[cid].error.null /\ documents[cid].error.len > 0
        /\ documents[cid].status \in {"pending", "processed"}
           => documents[cid].error.null

\* C5 witness: a record that failed in an earlier run is pending again in
\* this one, beside a failed record.
C5_Witness ==
    /\ phase = "pool"
    /\ \E t \in InFlight : task[t].pc = "extract" /\ Cid(t) = "A"
    /\ documents["A"].status = "pending"
    /\ documents["granth_2"].status = "failed"
    /\ documents["A"].csv_url # NULL

\* C7: when the run has ended, every document of the batch was handled, each
\* whose own steps all succeeded is processed, and the exit code is 0.
C7_FailureIsolation ==
    phase = "exited"
    => /\ exitCode = 0
       /\ \A i \in 1 .. Len(batch) :
            /\ outcome[i] \in {"ok", "failed"}
            /\ outcome[i] = "ok" => documents[customId(batch[i])].status = "processed"
       /\ ok + failed = Len(batch)

\* C7 witness: a run of two documents ended with the first failed and the
\* second processed.
C7_Witness ==
    /\ phase = "exited"
    /\ Len(batch) = 2
    /\ outcome[1] = "failed"
    /\ outcome[2] = "ok"
    /\ exitCode = 0

\* C8 as stated: once a worker has caught an exception and left its catch
\* block, the record is failed with the error text cut to at most 1800
\* characters plus "...".
C8_AlwaysRecordedFailed ==
    \A t \in Tasks :
        (phase = "pool" /\ task[t].pc = "finally" /\ task[t].failWrite # "none")
        => /\ documents[Cid(t)].status = "failed"
           /\ documents[Cid(t)].error.len <= ShortErrMax + 3

\* C8 amended: no exception leaves the handler; once a worker has caught an
\* exception and its failed write was accepted by the store, the record is
\* failed with the error text whole if it has at most 1800 characters and
\* else cut to 1800 characters plus "...".
C8_CaughtAndRecorded ==
    \A t \in Tasks :
        /\ task[t].pc # "rejected"
        /\ ~task[t].propagate
        /\ (phase = "pool" /\ task[t].pc = "finally" /\ task[t].failWrite = "ok")
           => /\ documents[Cid(t)].status = "failed"
              /\ ~documents[Cid(t)].error.null
              /\ IF documents[Cid(t)].error.cut
                 THEN documents[Cid(t)].error.len = ShortErrMax + 3
                 ELSE documents[Cid(t)].error.len <= ShortErrMax

\* C8 witness: a worker has left its catch block with the failed write
\* accepted and the text cut.
C8_Witness ==
    \E t \in Tasks :
        /\ phase = "pool" /\ task[t].pc = "finally" /\ task[t].failWrite = "ok"
        /\ documents[Cid(t)].status = "failed"
        /\ documents[Cid(t)].error.cut

\* C10: at most `concurrency` document handlers are in flight, and
\* runConcurrent creates at most min(concurrency, batch size) tasks.
C10_InFlightBound ==
    phase = "pool"
    => /\ Cardinality(InFlight) <= args.concurrency
       /\ Cardinality({ t \in Tasks : task[t].pc # "none" })
            <= Min(args.concurrency, Len(batch))

\* C10 witness: with --concurrency 2 and two documents, two handlers are in
\* flight.
C10_Witness ==
    /\ phase = "pool"
    /\ args.concurrency = 2
    /\ Len(batch) = 2
    /\ Cardinality(InFlight) = 2

---------------------------------------------------------------------------
(* SpecWork: the work-set computation on drawn arguments                   *)

\* index_granth_from_db.mjs:
\* sourceFiles.filter((f) => args.reprocess || !processedIds.has(f.custom_id || ""))
queue(sourceFiles, processed, reprocess) ==
    SelectSeq(sourceFiles,
              LAMBDA f : reprocess
                         \/ (IF Truthy(f.custom_id) THEN f.custom_id ELSE "") \notin processed)

\* Candidate lists: rows with ids 1, 2, ... in order, each with or without
\* a custom_id, a ut_key and a URL.
RowsWithId(i) ==
    { [id |-> i, custom_id |-> c, ut_key |-> k, ufs_url |-> u] :
        c \in {NULL, "A"}, k \in {NULL, "K"}, u \in {NULL, "u"} }

CandidateLists ==
    UNION { { f \in [1 .. n -> UNION { RowsWithId(i) : i \in 1 .. MaxRows }] :
                \A i \in 1 .. n : f[i].id = i } : n \in 0 .. MaxRows }

IdentityUniverse == {"A", "K"} \cup { "granth_" \o ToString(i) : i \in 1 .. MaxRows }

NoResult == [script |-> "none", work |-> << >>]

InitWork ==
    /\ RunIdle
    /\ DocIdle
    /\ input \in [files : CandidateLists, processed : SUBSET IdentityUniverse,
                  reprocess : BOOLEAN]
    /\ result = NoResult

\* index_granth_from_db_ocr500.mjs computes `filtered`
WorkSetOcr500 ==
    /\ result.script = "none"
    /\ result' = [script |-> "ocr500",
                  work |-> filtered(input.files, input.processed, input.reprocess)]
    /\ UNCHANGED <<storeVars, runVars, refAtStart, docVars, input>>

\* index_granth_from_db.mjs computes `queue`
WorkSetDb ==
    /\ result.script = "none"
    /\ result' = [script |-> "db",
                  work |-> queue(input.files, input.processed, input.reprocess)]
    /\ UNCHANGED <<storeVars, runVars, refAtStart, docVars, input>>

NextWork == WorkSetOcr500 \/ WorkSetDb

SpecWork == InitWork /\ [][NextWork]_vars

\* The work set the claim describes: the candidates with a usable URL whose
\* identity is not processed, or with reprocess all that have a usable URL
\* (every candidate has an identity: custom_id, ut_key or granth_<id>).
ExpectedWorkSet(files, processed, reprocess) ==
    SelectSeq(files, LAMBDA f : Truthy(f.ufs_url)
                                /\ (reprocess \/ customId(f) \notin processed))

\* C3: the computed work set is exactly the candidates that have a usable
\* URL and, unless reprocess is set, an identity that is not processed, in
\* catalog order; no candidate without a usable URL is in it.
C3_WorkSetExact ==
    result.script # "none"
    => /\ result.work = ExpectedWorkSet(input.files, input.processed, input.reprocess)
       /\ \A i \in 1 .. Len(result.work) : Truthy(result.work[i].ufs_url)

---------------------------------------------------------------------------
(* SpecManifest: the manifest-driven ingestion script.  Its queue is the   *)
(* manifest's PDF rows matched to an uploaded file; there is no processed  *)
(* filter and no empty-result check.                                       *)

\* matched.slice(safeStartAt, endIndex) with the default --startAt, --limit;
\* customId = normalizePathForCustomId(row.relative_path)
ManifestQueue ==
    << [id |-> 1, custom_id |-> "A", ut_key |-> NULL, ufs_url |-> "u1"],
       [id |-> 2, custom_id |-> "K", ut_key |-> NULL, ufs_url |-> "u2"] >>

Ref(row) == [csv_url |-> row.csv_url, csv_key |-> row.csv_key]

\* upsertDocumentPending: { ...payload, status, error: null, csv_url: null, csv_key: null }
upsertDocumentPending(docs, cid) ==
    [docs EXCEPT ![cid] = [status |-> "pending", error |-> NullText,
                           csv_url |-> NULL, csv_key |-> NULL]]

\* upsertDocumentFailed: { ...payload, status, error, csv_url: null, csv_key: null }
upsertDocumentFailed(docs, cid, msg) ==
    [docs EXCEPT ![cid] = [status |-> "failed", error |-> msg,
                           csv_url |-> NULL, csv_key |-> NULL]]

\* uploadCsv of the manifest script: any upload error is thrown
manifestUploadCsv(first) ==
    IF first.kind = "ok"
    THEN Return(Coalesce(first.ufsUrl, Coalesce(first.url, NULL)), Coalesce(first.key, NULL))
    ELSE Throw

\* a page of the extractor's JSON array, by the count of non-whitespace
\* characters of its text: 0 for "" (also what a missing text becomes), 1 else
PageRow(p, chars) == [page_number |-> p, chars |-> chars]

\* the pages of a PDF that has text on every page
TextRows(file) == { PageRow(p, 1) : p \in PdfPages(file) }

\* runExtractor resolves with whatever JSON array the extractor printed: no
\* page, or one item per page of the PDF, each with or without text
ExtractorOutputs(file) ==
    {{}} \cup { { PageRow(p, f[p]) : p \in PdfPages(file) } : f \in [PdfPages(file) -> {0, 1}] }

ManifestExtractResults(file) ==
    { [kind |-> "throw", step |-> s, pages |-> {}] : s \in {"download", "extract"} }
    \cup { [kind |-> "pages", step |-> "", pages |-> P] : P \in ExtractorOutputs(file) }

InitManifest ==
    /\ RunIdle
    /\ DocIdle
    /\ PureIdle

\* main() up to and including runWithConcurrency(queue, args.concurrency, ...)
StartManifestRun(concurrency) ==
    /\ phase \in {"idle", "exited"}
    /\ LET n == numTasks(concurrency, Len(ManifestQueue))
       IN  /\ args' = [reprocess |-> FALSE, concurrency |-> concurrency, appId |-> "app"]
           /\ batch' = ManifestQueue
           /\ next' = n
           /\ task' = [t \in Tasks |-> IF t <= n THEN Handling(t - 1) ELSE NoTask]
           /\ refAtStart' = [t \in Tasks |->
                               IF t <= n THEN Ref(documents[customId(ManifestQueue[t])])
                               ELSE NoRef]
           /\ outcome' = [i \in 1 .. Len(ManifestQueue) |-> IF i <= n THEN "running" ELSE "none"]
           /\ ok' = 0
           /\ failed' = 0
           /\ phase' = "pool"
           /\ exitCode' = -1
    /\ UNCHANGED <<storeVars, processedIds, docVars, pureVars>>

\* await upsertDocumentPending(supabase, documentPayload)
ManifestPending(t) ==
    /\ phase = "pool"
    /\ task[t].pc = "pending"
    /\ \E storeErr \in BOOLEAN :
         IF storeErr
         THEN /\ ThrowAt(t, "pending")
              /\ UNCHANGED <<documents, ok>>
         ELSE /\ documents' = upsertDocumentPending(documents, Cid(t))
              /\ task' = [task EXCEPT ![t] = [@ EXCEPT !.pc = "extract"]]
              /\ UNCHANGED <<outcome, ok, failed>>
    /\ UNCHANGED <<document_pages, storage, phase, args, batch, processedIds, next, exitCode>>
    /\ UNCHANGED <<refAtStart, docVars, pureVars>>

\* await downloadFile(pdfUrl, pdfPath); const pages = await runExtractor(pdfPath)
ManifestExtract(t) ==
    /\ phase = "pool"
    /\ task[t].pc = "extract"
    /\ \E r \in ManifestExtractResults(batch[task[t].idx]) :
         IF r.kind = "throw" THEN ThrowAt(t, r.step)
         ELSE /\ task' = [task EXCEPT ![t] = [@ EXCEPT !.pc = "clear", !.pages = r.pages]]
              /\ UNCHANGED <<outcome, failed>>
    /\ UNCHANGED <<storeVars, phase, args, batch, processedIds, next, ok, exitCode>>
    /\ UNCHANGED <<refAtStart, docVars, pureVars>>

\* replaceDocumentPages: the delete; with no page the chunk loop does not run
ManifestDeletePages(t) ==
    /\ phase = "pool"
    /\ task[t].pc = "clear"
    /\ \E storeErr \in BOOLEAN :
         IF storeErr
         THEN /\ ThrowAt(t, "clear")
              /\ UNCHANGED document_pages
         ELSE /\ document_pages' = [document_pages EXCEPT ![Cid(t)] = {}]
              /\ task' = [task EXCEPT ![t] =
                            [@ EXCEPT !.pc = IF task[t].pages = {} THEN "upload" ELSE "upsert"]]
              /\ UNCHANGED <<outcome, failed>>
    /\ UNCHANGED <<documents, storage, phase, args, batch, processedIds, next, ok, exitCode>>
    /\ UNCHANGED <<refAtStart, docVars, pureVars>>

\* replaceDocumentPages: the chunk upserts; then writeCsvRows
ManifestUpsertPages(t) ==
    /\ phase = "pool"
    /\ task[t].pc = "upsert"
    /\ \E storeErr \in BOOLEAN :
         IF storeErr
         THEN /\ ThrowAt(t, "upsert")
              /\ UNCHANGED document_pages
         ELSE /\ document_pages' = [document_pages EXCEPT ![Cid(t)] = @ \cup task[t].pages]
              /\ task' = [task EXCEPT ![t] = [@ EXCEPT !.pc = "upload"]]
              /\ UNCHANGED <<outcome, failed>>
    /\ UNCHANGED <<documents, storage, phase, args, batch, processedIds, next, ok, exitCode>>
    /\ UNCHANGED <<refAtStart, docVars, pureVars>>

\* const { csvUrl, csvKey } = await uploadCsv(utapi, csvPath, csvName, csvCustomId)
ManifestUpload(t) ==
    /\ phase = "pool"
    /\ task[t].pc = "upload"
    /\ \E first \in UploadResponses(HasObject(storage, Cid(t))) :
         LET r == manifestUploadCsv(first)
         IN  /\ storage' = IF first.kind = "ok"
                            THEN PutObject(storage, Cid(t), task[t].pages) ELSE storage
             /\ IF r.throws
                THEN ThrowAt(t, IF first.match THEN "conflict" ELSE "upload")
                ELSE /\ task' = [task EXCEPT ![t] = [@ EXCEPT !.pc = "mark",
                                     !.csvUrl = r.csvUrl, !.csvKey = r.csvKey]]
                     /\ UNCHANGED <<outcome, failed>>
    /\ UNCHANGED <<documents, document_pages, phase, args, batch, processedIds, next, ok, exitCode>>
    /\ UNCHANGED <<refAtStart, docVars, pureVars>>

\* await markDocumentProcessed(supabase, customId, csvUrl, csvKey); processed += 1
ManifestMarkProcessed(t) ==
    /\ phase = "pool"
    /\ task[t].pc = "mark"
    /\ \E storeErr \in BOOLEAN :
         IF storeErr
         THEN /\ ThrowAt(t, "mark")
              /\ UNCHANGED <<documents, ok>>
         ELSE /\ documents' = markDocProcessed(documents, Cid(t), task[t].csvUrl, task[t].csvKey)
              /\ ok' = ok + 1
              /\ outcome' = [outcome EXCEPT ![task[t].idx] = "ok"]
              /\ task' = [task EXCEPT ![t] = [NoTask EXCEPT !.pc = "finally", !.idx = task[t].idx]]
              /\ UNCHANGED failed
    /\ UNCHANGED <<document_pages, storage, phase, args, batch, processedIds, next, exitCode>>
    /\ UNCHANGED <<refAtStart, docVars, pureVars>>

\* catch (error) { ...; await upsertDocumentFailed(supabase, documentPayload, message) }
ManifestCatch(t) ==
    /\ phase = "pool"
    /\ task[t].pc = "catch"
    /\ \E storeErr \in BOOLEAN, len \in ErrLens :
         IF storeErr
         THEN /\ task' = [task EXCEPT ![t] = [@ EXCEPT !.pc = "finally", !.step = "",
                              !.failWrite = "error"]]
              /\ UNCHANGED documents
         ELSE /\ documents' = upsertDocumentFailed(documents, Cid(t), shortErr(len, ShortErrMax))
              /\ task' = [task EXCEPT ![t] = [@ EXCEPT !.pc = "finally", !.step = "",
                              !.failWrite = "ok"]]
    /\ UNCHANGED <<document_pages, storage, phase, args, batch, processedIds, next,
                   outcome, ok, failed, exitCode>>
    /\ UNCHANGED <<refAtStart, docVars, pureVars>>

\* finally { unlinkIfExists(pdfPath); unlinkIfExists(csvPath) }, the return of
\* the handler, and the task's next turn of its loop
ManifestFinally(t) ==
    /\ phase = "pool"
    /\ task[t].pc = "finally"
    /\ next' = nextAfterPull(next)
    /\ IF next >= Len(batch)
       THEN /\ task' = [task EXCEPT ![t] = [NoTask EXCEPT !.pc = "done"]]
            /\ UNCHANGED <<outcome, refAtStart>>
       ELSE /\ task' = [task EXCEPT ![t] = Handling(next)]
            /\ outcome' = [outcome EXCEPT ![next + 1] = "running"]
            /\ refAtStart' = [refAtStart EXCEPT ![t] = Ref(documents[customId(batch[next + 1])])]
    /\ UNCHANGED <<storeVars, phase, args, batch, processedIds, ok, failed, exitCode>>
    /\ UNCHANGED <<docVars, pureVars>>

\* await Promise.all(workers) resolves; main logs the summary
ManifestResume ==
    /\ phase = "pool"
    /\ \A t \in Tasks : task[t].pc \in {"none", "done"}
    /\ phase' = "exited"
    /\ exitCode' = 0
    /\ UNCHANGED <<storeVars, args, batch, processedIds, next, task, outcome, ok, failed>>
    /\ UNCHANGED <<refAtStart, docVars, pureVars>>

NextManifest ==
    \/ \E concurrency \in 1 .. MaxConcurrency : StartManifestRun(concurrency)
    \/ \E t \in Tasks : ManifestPending(t)
    \/ \E t \in Tasks : ManifestExtract(t)
    \/ \E t \in Tasks : ManifestDeletePages(t)
    \/ \E t \in Tasks : ManifestUpsertPages(t)
    \/ \E t \in Tasks : ManifestUpload(t)
    \/ \E t \in Tasks : ManifestMarkProcessed(t)
    \/ \E t \in Tasks : ManifestCatch(t)
    \/ \E t \in Tasks : ManifestFinally(t)
    \/ ManifestResume

SpecManifest == InitManifest /\ [][NextManifest]_vars

\* C6: when a worker has failed and its failed write was accepted, the
\* record's csv_url and csv_key are what they were when the worker began.
C6_FailedKeepsArtifact ==
    \A t \in Tasks :
        (phase = "pool" /\ task[t].pc = "finally" /\ task[t].failWrite = "ok")
        => Ref(documents[Cid(t)]) = refAtStart[t]

---------------------------------------------------------------------------
(* SpecDoc: one document worker from the page count to its return, with    *)
(* the page tasks of runConcurrent(pageNumbers, args.pageConcurrency, ...).*)
(* A step ends at an await whose completion is an event of its own (a      *)
(* child process, a file operation, a store call); promise reactions run   *)
(* in the step that settles the promise.                                   *)

PageTasks == 1 .. MaxPageConcurrency

NoPageTask ==
    [pc |-> "none", page |-> 0, thrown |-> FALSE, pdfAtStart |-> FALSE,
     text |-> 0, psmUsed |-> 0]

\* worker(items[idx], idx) up to its first await: pdftoppm is spawned
Rendering(page, pdf) ==
    [pc |-> "render", page |-> page, thrown |-> FALSE, pdfAtStart |-> pdf,
     text |-> 0, psmUsed |-> PSM_PRIMARY]

\* unlinkSafe leaving the file in place
unlinkSafeKeeps(files, path) == files

\* await fs.unlink(filePath), errors ignored: the file is gone if it was there
unlinkSafe(files, path) == files \ {path}

Stopped(pt) == pt.pc \in {"none", "done", "rejected"}

\* normalized.replace(/\s+/g, "").length of an OCR output
OcrChars == {0, 1}

\* every OCR result taken as meaningful
hasMeaningfulTextAny(chars) == TRUE

hasMeaningfulText(chars) == chars > 0

RECURSIVE InsertByPage(_, _)
InsertByPage(r, sorted) ==
    IF sorted = << >> THEN << r >>
    ELSE IF r.page_number < Head(sorted).page_number THEN << r >> \o sorted
    ELSE << Head(sorted) >> \o InsertByPage(r, Tail(sorted))

\* pageResults left in push order
SortByPageKeep(results) == results

RECURSIVE SortByPage(_)
\* pageResults.sort((a, b) => a.page_number - b.page_number)
SortByPage(results) ==
    IF results = << >> THEN << >>
    ELSE InsertByPage(Head(results), SortByPage(Tail(results)))

nonEmptyPages(sorted) == SelectSeq(sorted, LAMBDA p : p.chars > 0)

\* the document worker after `await runConcurrent(...)` has resolved: sort,
\* filter, the empty-result throw, and the call of clearPages
AfterPool(d, results) ==
    IF Len(nonEmptyPages(SortByPage(results))) = 0
    THEN [d EXCEPT !.pc = "catch"]
    ELSE [d EXCEPT !.pc = "store", !.stored = nonEmptyPages(SortByPage(results))]

InitDoc ==
    /\ RunIdle
    /\ PureIdle
    /\ \E n \in 0 .. MaxPages, c \in 1 .. MaxPageConcurrency :
         doc = [pc |-> "counted", nPages |-> n, pageConcurrency |-> c,
                pdf |-> TRUE, csv |-> FALSE, stored |-> << >>, rows |-> << >>]
    /\ pageTask = [t \in PageTasks |-> NoPageTask]
    /\ pnext = 0
    /\ pageResults = << >>
    /\ images = {}

\* runConcurrent(pageNumbers, args.pageConcurrency, ...): the tasks are
\* created and each runs to its first await
PagePoolStart ==
    /\ doc.pc = "counted"
    /\ LET n == numTasks(doc.pageConcurrency, doc.nPages)
       IN  /\ pageTask' = [t \in PageTasks |->
                             IF t <= n THEN Rendering(t, doc.pdf) ELSE NoPageTask]
           /\ pnext' = n
           /\ doc' = IF doc.nPages = 0 THEN AfterPool(doc, pageResults)
                     ELSE [doc EXCEPT !.pc = "pool"]
    /\ UNCHANGED <<pageResults, images>>
    /\ UNCHANGED <<storeVars, runVars, refAtStart, pureVars>>

\* await renderPageToPng(temp.pdfPath, page, imageBase, args.dpi)
PageRender(t) ==
    /\ pageTask[t].pc = "render"
    /\ \E fails \in BOOLEAN :
         /\ ~pageTask[t].pdfAtStart => fails
         /\ IF fails
            THEN /\ pageTask' = [pageTask EXCEPT ![t] = [@ EXCEPT !.pc = "unlink", !.thrown = TRUE]]
                 /\ UNCHANGED images
            ELSE /\ pageTask' = [pageTask EXCEPT ![t] = [@ EXCEPT !.pc = "ocr1"]]
                 /\ images' = images \cup {pageTask[t].page}
    /\ UNCHANGED <<doc, pnext, pageResults>>
    /\ UNCHANGED <<storeVars, runVars, refAtStart, pureVars>>

\* let text = await runTesseract(imagePath, langSpec, PSM_PRIMARY, ...)
PageOcrPrimary(t) ==
    /\ pageTask[t].pc = "ocr1"
    /\ \/ /\ pageTask' = [pageTask EXCEPT ![t] = [@ EXCEPT !.pc = "unlink", !.thrown = TRUE]]
          /\ UNCHANGED pageResults
       \/ \E chars \in OcrChars :
            IF hasMeaningfulText(chars)
            THEN /\ pageResults' = Append(pageResults,
                                          [page_number |-> pageTask[t].page, chars |-> chars])
                 /\ pageTask' = [pageTask EXCEPT ![t] = [@ EXCEPT !.pc = "unlink", !.text = chars]]
            ELSE /\ pageTask' = [pageTask EXCEPT ![t] = [@ EXCEPT !.pc = "ocr2", !.text = chars]]
                 /\ UNCHANGED pageResults
    /\ UNCHANGED <<doc, pnext, images>>
    /\ UNCHANGED <<storeVars, runVars, refAtStart, pureVars>>

\* text = await runTesseract(imagePath, langSpec, PSM_FALLBACK, ...)
PageOcrFallback(t) ==
    /\ pageTask[t].pc = "ocr2"
    /\ \/ /\ pageTask' = [pageTask EXCEPT ![t] = [@ EXCEPT !.pc = "unlink", !.thrown = TRUE]]
          /\ UNCHANGED pageResults
       \/ \E chars \in OcrChars :
            /\ pageResults' = Append(pageResults,
                                     [page_number |-> pageTask[t].page, chars |-> chars])
            /\ pageTask' = [pageTask EXCEPT ![t] = [@ EXCEPT !.pc = "unlink", !.text = chars,
                                                              !.psmUsed = PSM_FALLBACK]]
    /\ UNCHANGED <<doc, pnext, images>>
    /\ UNCHANGED <<storeVars, runVars, refAtStart, pureVars>>

\* finally { await unlinkSafe(imagePath) }, then the task's loop: a handler
\* that threw rejects the task, and Promise.all rejects with it; otherwise the
\* task pulls the next page or returns, and Promise.all resolves with the last
PageFinally(t) ==
    /\ pageTask[t].pc = "unlink"
    /\ images' = unlinkSafe(images, pageTask[t].page)
    /\ IF pageTask[t].thrown
       THEN /\ pageTask' = [pageTask EXCEPT ![t] = [NoPageTask EXCEPT !.pc = "rejected"]]
            /\ doc' = IF doc.pc = "pool" THEN [doc EXCEPT !.pc = "catch"] ELSE doc
            /\ UNCHANGED <<pnext, pageResults>>
       ELSE /\ pnext' = nextAfterPull(pnext)
            /\ pageTask' = [pageTask EXCEPT ![t] =
                              IF pnext >= doc.nPages THEN [NoPageTask EXCEPT !.pc = "done"]
                              ELSE Rendering(pnext + 1, doc.pdf)]
            /\ IF doc.pc = "pool" /\ \A u \in PageTasks : Stopped(pageTask'[u])
               THEN /\ doc' = AfterPool(doc, pageResults)
                    /\ pageResults' = SortByPage(pageResults)
               ELSE UNCHANGED <<doc, pageResults>>
    /\ UNCHANGED <<storeVars, runVars, refAtStart, pureVars>>

\* clearPages, the loop over nonEmptyPages that emits one CSV line and one
\* page row per page, uploadCsv and markDocProcessed: any call may throw,
\* after the rows of the first k pages; the CSV file exists once clearPages
\* has returned (fsSync.createWriteStream(temp.csvPath))
WorkerStore ==
    /\ doc.pc = "store"
    /\ \/ \E k \in 0 .. Len(doc.stored), csv \in BOOLEAN :
            /\ k > 0 => csv
            /\ doc' = [doc EXCEPT !.pc = "catch", !.rows = SubSeq(doc.stored, 1, k),
                                  !.csv = csv]
       \/ doc' = [doc EXCEPT !.pc = "finally", !.rows = doc.stored, !.csv = TRUE]
    /\ UNCHANGED <<pageTask, pnext, pageResults, images>>
    /\ UNCHANGED <<storeVars, runVars, refAtStart, pureVars>>

\* catch (error) { ...; await upsertDocFailed(supabase, docPayload, msg) }
WorkerCatch ==
    /\ doc.pc = "catch"
    /\ doc' = [doc EXCEPT !.pc = "finally"]
    /\ UNCHANGED <<pageTask, pnext, pageResults, images>>
    /\ UNCHANGED <<storeVars, runVars, refAtStart, pureVars>>

\* finally { closeCsv; await unlinkSafe(temp.pdfPath); await unlinkSafe(temp.csvPath) }
WorkerFinally ==
    /\ doc.pc = "finally"
    /\ doc' = [doc EXCEPT !.pc = "returned", !.pdf = FALSE, !.csv = FALSE]
    /\ UNCHANGED <<pageTask, pnext, pageResults, images>>
    /\ UNCHANGED <<storeVars, runVars, refAtStart, pureVars>>

NextDoc ==
    \/ PagePoolStart
    \/ \E t \in PageTasks : PageRender(t)
    \/ \E t \in PageTasks : PageOcrPrimary(t)
    \/ \E t \in PageTasks : PageOcrFallback(t)
    \/ \E t \in PageTasks : PageFinally(t)
    \/ WorkerStore
    \/ WorkerCatch
    \/ WorkerFinally

SpecDoc == InitDoc /\ [][NextDoc]_vars

\* C9: once runConcurrent has completed and the document worker has resumed,
\* every page task has stopped: none is running a handler or can pull a page.
C9_CompletesAfterAllStopped ==
    doc.pc \notin {"counted", "pool"} => \A t \in PageTasks : Stopped(pageTask[t])

---------------------------------------------------------------------------
(* Claims on the page pool (SpecDoc) *)

NoHandlerThrew == \A t \in PageTasks : ~pageTask[t].thrown /\ pageTask[t].pc # "rejected"

PagesInHandler == { pageTask[t].page : t \in { u \in PageTasks : ~Stopped(pageTask[u]) } }

PagesPushed == { pageResults[i].page_number : i \in 1 .. Len(pageResults) }

TasksInHandler == { t \in PageTasks : ~Stopped(pageTask[t]) }

\* C11: while no page handler has thrown, the pages handed out so far are
\* exactly the first Min(cursor, length) items, each to one handler only: no
\* page is in two handlers, none is pushed twice, none is skipped, and when
\* every task has returned every page of the list was handled once.
C11_EachItemOnce ==
    (doc.pc # "counted" /\ NoHandlerThrew)
    => /\ \A t, u \in TasksInHandler : pageTask[t].page = pageTask[u].page => t = u
       /\ \A i, j \in 1 .. Len(pageResults) :
            pageResults[i].page_number = pageResults[j].page_number => i = j
       /\ PagesInHandler \cap { p \in PagesPushed :
              \A t \in TasksInHandler : pageTask[t].page = p => pageTask[t].pc # "unlink" } = {}
       /\ PagesInHandler \cup PagesPushed = 1 .. Min(pnext, doc.nPages)
       /\ (\A t \in PageTasks : Stopped(pageTask[t])) => PagesPushed = 1 .. doc.nPages

\* three pages over two tasks, page 2 finished before page 1, page 3 pulled
C11_Witness ==
    /\ doc.pc = "pool"
    /\ doc.nPages = 3
    /\ NoHandlerThrew
    /\ Len(pageResults) = 2
    /\ pageResults[1].page_number = 2
    /\ \E t \in PageTasks : pageTask[t].pc = "ocr1" /\ pageTask[t].page = 3

---------------------------------------------------------------------------
(* SpecRestart: the manifest-driven ingestion script killed inside a run   *)
(* and started again.  Before the kill any step can fail; after it the      *)
(* store, the network and the extractor answer without fault, and an        *)
(* upload is refused only because its key already holds an object.          *)

Killed == << "killed" >>

\* SIGKILL of the process: every task is gone, the store keeps what was written
KillRun ==
    /\ phase = "pool"
    /\ input = << >>
    /\ phase' = "exited"
    /\ exitCode' = 137
    /\ task' = [t \in Tasks |-> NoTask]
    /\ input' = Killed
    /\ UNCHANGED <<storeVars, args, batch, processedIds, next, outcome, ok, failed>>
    /\ UNCHANGED <<refAtStart, docVars, result>>

\* a step in which no store call, download, extraction or upload fails of itself
FaultFreeStep ==
    \A t \in Tasks :
        /\ (task'[t].pc = "catch" /\ task[t].pc # "catch") => task'[t].step = "conflict"
        /\ task'[t].failWrite # "error"
        /\ (task'[t].pc = "clear" /\ task[t].pc # "clear")
               => task'[t].pages = TextRows(batch'[task'[t].idx])

NextRestart ==
    \/ input = << >> /\ NextManifest
    \/ KillRun
    \/ input = Killed /\ NextManifest /\ FaultFreeStep

SpecRestart == InitManifest /\ [][NextRestart]_vars

\* C12: in the runs that follow a kill and meet no fault, no document worker
\* fails, and when such a run has ended every document of the queue is
\* processed with its complete page set.
C12_RestartCompletes ==
    input = Killed
    => /\ \A t \in Tasks : task[t].pc # "catch"
       /\ (phase = "exited" /\ exitCode = 0)
          => \A i \in 1 .. Len(ManifestQueue) :
               /\ documents[customId(ManifestQueue[i])].status = "processed"
               /\ document_pages[customId(ManifestQueue[i])] = TextRows(ManifestQueue[i])

---------------------------------------------------------------------------
(* Claims on the manifest-driven script (SpecManifest) *)

\* C13: an upload refused because its key already holds an object, which a
\* lookup by that key would resolve, does not take the document worker to
\* its catch block: the worker goes on to the processed write.
C13_ConflictResolves ==
    \A t \in Tasks :
        (phase = "pool" /\ task[t].pc = "catch" /\ HasObject(storage, Cid(t)))
        => task[t].step # "conflict"

---------------------------------------------------------------------------
(* Claims on uploadCsv within the document worker (Spec) *)

\* C14: when the upload is refused because the key already holds an object,
\* uploadCsv returns to the worker only with the reference that the lookup
\* by key resolved; with a lookup that throws or has no hit it throws.
C14_ConflictNeedsLookup ==
    [][\A t \in Tasks :
         (phase = "pool" /\ task[t].pc = "upload" /\ HasObject(storage, Cid(t))
            /\ task'[t].pc = "mark")
         => (task'[t].csvUrl = ObjUrl /\ task'[t].csvKey = ObjKey)]_vars

StrictlyAscending(rows) ==
    \A i, j \in 1 .. Len(rows) : i < j => rows[i].page_number < rows[j].page_number

\* C15: the pages kept for a document after its page pool, and the rows
\* emitted from them, are strictly ascending by page_number (so none twice)
\* and every one has a non-whitespace character count above 0.
C15_RowsAscendingNonEmpty ==
    /\ StrictlyAscending(doc.stored)
    /\ StrictlyAscending(doc.rows)
    /\ \A i \in 1 .. Len(doc.stored) : doc.stored[i].chars > 0
    /\ \A i \in 1 .. Len(doc.rows) : doc.rows[i].chars > 0

\* three pages over two tasks, page 2 without text: rows for pages 1 and 3
C15_Witness ==
    /\ doc.pc = "finally"
    /\ doc.pageConcurrency = 2
    /\ Len(pageResults) = 3
    /\ Len(doc.rows) = 2
    /\ doc.rows[2].page_number = 3

\* C16: every row of the page store has text with at least one
\* non-whitespace character.
C16_StoredRowsHaveText ==
    \A cid \in Identities : \A row \in document_pages[cid] : row.chars > 0

\* C17: a document none of whose pages has meaningful text (a document with
\* no page included) never reaches the upload or the processed write: its
\* worker has thrown before.
C17_EmptyResultFails ==
    \A t \in Tasks :
        (phase = "pool" /\ task[t].pc \in {"upload", "mark"})
        => \E row \in task[t].pages : row.chars > 0

\* the chars recorded in pageResults for a page
Recorded(page) ==
    { pageResults[i].chars : i \in { j \in 1 .. Len(pageResults) : pageResults[j].page_number = page } }

\* C18: a page task is at its fallback OCR only with a non-meaningful primary
\* result and no fallback run before; when its handler has pushed, the record
\* holds the last OCR result, which is the primary result only if that was
\* meaningful, and a page recorded empty has been through the fallback.
C18_FallbackChain ==
    \A t \in PageTasks :
        /\ pageTask[t].pc = "ocr1" => pageTask[t].psmUsed = PSM_PRIMARY
        /\ pageTask[t].pc = "ocr2"
             => /\ ~hasMeaningfulText(pageTask[t].text)
                /\ pageTask[t].psmUsed = PSM_PRIMARY
                /\ Recorded(pageTask[t].page) = {}
        /\ (pageTask[t].pc = "unlink" /\ ~pageTask[t].thrown)
             => /\ Recorded(pageTask[t].page) = {pageTask[t].text}
                /\ pageTask[t].psmUsed = PSM_PRIMARY => pageTask[t].text > 0
                /\ pageTask[t].text = 0 => pageTask[t].psmUsed = PSM_FALLBACK

\* a page whose primary OCR was empty and whose fallback found text
C18_Witness ==
    \E t \in PageTasks :
        /\ pageTask[t].pc = "unlink"
        /\ ~pageTask[t].thrown
        /\ pageTask[t].psmUsed = PSM_FALLBACK
        /\ Recorded(pageTask[t].page) = {1}

\* C19: in the step in which the document worker returns, the downloaded
\* PDF, the CSV and every rendered page image of the document are gone.
C19_NoTempFileAtReturn ==
    [][(doc.pc # "returned" /\ doc'.pc = "returned")
       => (~doc'.pdf /\ ~doc'.csv /\ images' = {})]_vars

\* C20: a rendered image on disk belongs to a page whose handler is still
\* running, each task holds at most its current page's image, and so at most
\* pageConcurrency images of the document exist at any moment.
C20_ImagesBounded ==
    /\ images \subseteq PagesInHandler
    /\ Cardinality(images) <= doc.pageConcurrency
    /\ \A t \in PageTasks :
         pageTask[t].pc = "render" => pageTask[t].page \notin images

\* two tasks, three pages: page 3 was pulled after its task released an
\* earlier image, and two images are on disk
C20_Witness ==
    /\ doc.pageConcurrency = 2
    /\ doc.nPages = 3
    /\ 3 \in images
    /\ Cardinality(images) = 2

---------------------------------------------------------------------------
(* SpecScan: the two setup scans, fetchSourceFiles and fetchProcessedIds,  *)
(* against an unchanging table of n matching rows (ids 1..n), one step per  *)
(* turn of the `while (true)` loop.  The page size is drawn from            *)
(* 1..MaxPageSize in place of SOURCE_PAGE_SIZE.                             *)

Max(a, b) == IF a > b THEN a ELSE b

\* the arrangements in which the table can list its n rows
Orders(n) == { f \in [1 .. n -> 1 .. n] : \A i, j \in 1 .. n : f[i] = f[j] => i = j }

\* .order("id", { ascending: true })
ById(n) == [i \in 1 .. n |-> i]

\* .range(offset, offset + size - 1) over the rows listed in `order`
Range(order, offset, size) ==
    [i \in 1 .. Max(0, Min(size, Len(order) - offset)) |-> order[offset + i]]

\* fetchProcessedIds sends no .order(): each request lists the matching rows
\* in an arrangement of the store's choosing
ProcessedOrders(n) == Orders(n)

InitScan ==
    /\ RunIdle
    /\ DocIdle
    /\ input \in [fn : {"fetchSourceFiles", "fetchProcessedIds"},
                  n : 0 .. MaxScanRows, size : 1 .. MaxPageSize]
    /\ result = [pc |-> "loop", offset |-> 0, out |-> << >>, requests |-> << >>]

\* one turn of the loop, for the page `data` that the store returns
ScanTurn(data) ==
    IF Len(data) = 0
    THEN result' = [result EXCEPT !.pc = "returned",
                                  !.requests = Append(@, result.offset)]
    ELSE result' = [result EXCEPT !.pc = IF Len(data) < input.size THEN "returned" ELSE "loop",
                                  !.offset = @ + input.size,
                                  !.out = @ \o data,
                                  !.requests = Append(@, result.offset)]

\* if (error) throw new Error(...): the rows gathered so far are dropped
ScanThrow ==
    result' = [result EXCEPT !.pc = "threw", !.out = << >>,
                             !.requests = Append(@, result.offset)]

\* fetchSourceFiles: one request and what follows it
FetchSourceFilesPage ==
    /\ input.fn = "fetchSourceFiles"
    /\ result.pc = "loop"
    /\ \/ ScanThrow
       \/ ScanTurn(Range(ById(input.n), result.offset, input.size))
    /\ UNCHANGED <<storeVars, runVars, refAtStart, docVars, input>>

\* fetchProcessedIds: one request and what follows it; out is a Set
FetchProcessedIdsPage ==
    /\ input.fn = "fetchProcessedIds"
    /\ result.pc = "loop"
    /\ \/ ScanThrow
       \/ \E order \in ProcessedOrders(input.n) :
            ScanTurn(Range(order, result.offset, input.size))
    /\ UNCHANGED <<storeVars, runVars, refAtStart, docVars, input>>

NextScan ==
    \/ FetchSourceFilesPage
    \/ FetchProcessedIdsPage

SpecScan == InitScan /\ [][NextScan]_vars

SeqToSet(s) == { s[i] : i \in 1 .. Len(s) }

\* C21: a scan never requests beyond the first short page; when it returns,
\* its requests were at offsets 0, P, 2P, ... up to the first page shorter
\* than P, the catalog holds rows 1..n once each in ascending id order, and
\* the processed identities are exactly those of the n matching rows.
C21_ScanComplete ==
    /\ \A k \in 1 .. Len(result.requests) : result.requests[k] = (k - 1) * input.size
    /\ result.offset <= input.n + input.size
    /\ result.pc = "returned"
       => /\ Len(result.requests) = (input.n \div input.size) + 1
          /\ input.fn = "fetchSourceFiles" => result.out = ById(input.n)
          /\ input.fn = "fetchProcessedIds" => SeqToSet(result.out) = 1 .. input.n

---------------------------------------------------------------------------
(* SpecSetup: main() of index_granth_from_db_ocr500.mjs with its setup     *)
(* phase step by step - environment, tool check, catalog scan, processed-  *)
(* identity scan, --dry-run - followed by the document pool of Spec.       *)

\* natural end of main() always exiting 0, also after main().catch
processExitZero(error) == 0

\* main().catch((error) => { ...; process.exit(1) }); else the natural exit
processExit(error) == IF error THEN 1 ELSE 0

SetupPhases == {"tools", "scanCatalog", "scanProcessed"}

\* main() without its --dry-run branch
stopsBeforePoolAlways(b, dryRun) == Len(b) = 0

\* if (args.dryRun) { ...; return; } and runConcurrent's return on no item
stopsBeforePool(b, dryRun) == Len(b) = 0 \/ dryRun

\* a fresh process: nothing of an earlier run but the stores
FreshProcess(a) ==
    /\ args' = a
    /\ batch' = << >>
    /\ processedIds' = {}
    /\ next' = 0
    /\ task' = [t \in Tasks |-> NoTask]
    /\ outcome' = << >>
    /\ ok' = 0
    /\ failed' = 0

\* main() throws during setup: main().catch logs and exits
SetupAbort ==
    /\ phase' = "exited"
    /\ exitCode' = processExit(TRUE)

\* parseArgs and the reqEnv calls
SetupEnv(reprocess, concurrency, appId, dryRun) ==
    /\ phase \in {"idle", "exited"}
    /\ FreshProcess([reprocess |-> reprocess, concurrency |-> concurrency,
                     appId |-> appId, dryRun |-> dryRun])
    /\ \E missing \in BOOLEAN :
         IF missing THEN SetupAbort
         ELSE phase' = "tools" /\ exitCode' = -1
    /\ UNCHANGED <<storeVars, refAtStart, docVars, pureVars>>

\* ensureToolsInstalled, resolveLangSpec, createClient, fs.mkdir(TMP_DIR)
SetupTools ==
    /\ phase = "tools"
    /\ \E toolFails \in BOOLEAN :
         IF toolFails THEN SetupAbort
         ELSE phase' = "scanCatalog" /\ UNCHANGED exitCode
    /\ UNCHANGED <<args, batch, processedIds, next, task, outcome, ok, failed>>
    /\ UNCHANGED <<storeVars, refAtStart, docVars, pureVars>>

\* const sourceFiles = await fetchSourceFiles(supabase, args.collection)
SetupScanCatalog ==
    /\ phase = "scanCatalog"
    /\ \E scanFails \in BOOLEAN :
         IF scanFails THEN SetupAbort
         ELSE phase' = "scanProcessed" /\ UNCHANGED exitCode
    /\ UNCHANGED <<args, batch, processedIds, next, task, outcome, ok, failed>>
    /\ UNCHANGED <<storeVars, refAtStart, docVars, pureVars>>

\* if (!args.reprocess) processedIds = await fetchProcessedIds(supabase); the
\* filter and the batch; the --dry-run return; the call of runConcurrent
SetupScanProcessed ==
    /\ phase = "scanProcessed"
    /\ \E scanFails \in BOOLEAN :
         IF scanFails /\ ~args.reprocess
         THEN /\ SetupAbort
              /\ UNCHANGED <<batch, processedIds, next, task, outcome>>
         ELSE LET seen == IF args.reprocess THEN {} ELSE fetchProcessedIds(documents)
                  b    == filtered(Catalog, seen, args.reprocess)
                  n    == IF stopsBeforePool(b, args.dryRun) THEN 0
                          ELSE numTasks(args.concurrency, Len(b))
              IN  /\ processedIds' = seen
                  /\ batch' = b
                  /\ next' = n
                  /\ task' = [t \in Tasks |-> IF t <= n THEN Handling(t - 1) ELSE NoTask]
                  /\ outcome' = [i \in 1 .. Len(b) |-> IF i <= n THEN "running" ELSE "none"]
                  /\ phase' = IF n = 0 THEN "exited" ELSE "pool"
                  /\ exitCode' = IF n = 0 THEN processExit(FALSE) ELSE -1
    /\ UNCHANGED <<args, ok, failed>>
    /\ UNCHANGED <<storeVars, refAtStart, docVars, pureVars>>

NextSetup ==
    \/ \E reprocess \in BOOLEAN, concurrency \in 1 .. MaxConcurrency,
          appId \in {NULL, "app"}, dryRun \in BOOLEAN :
         SetupEnv(reprocess, concurrency, appId, dryRun)
    \/ SetupTools
    \/ SetupScanCatalog
    \/ SetupScanProcessed
    \/ \E t \in Tasks : DocPending(t)
    \/ \E t \in Tasks : DocExtract(t)
    \/ \E t \in Tasks : DocClearPages(t)
    \/ \E t \in Tasks : DocUpsertPages(t)
    \/ \E t \in Tasks : DocUpload(t)
    \/ \E t \in Tasks : DocMarkProcessed(t)
    \/ \E t \in Tasks : DocCatch(t)
    \/ \E t \in Tasks : DocFinally(t)
    \/ MainResume

SpecSetup == Init /\ [][NextSetup]_vars

NoWorker == \A t \in Tasks : task[t].pc = "none"

\* C22: during setup no document worker exists; a step that ends the run
\* with an error out of the setup phase exits non-zero, keeps no scanned
\* row, starts no worker and leaves the record store, the page store and
\* object storage as they were; and the only way out of the environment
\* check, the tool check and the catalog scan besides going on is that exit.
C22_SetupFailureAborts ==
    [][/\ phase \in SetupPhases => NoWorker
       /\ (phase \in SetupPhases \cup {"idle", "exited"} /\ phase' = "exited"
             /\ ~(phase = "scanProcessed" /\ exitCode' = 0))
          => /\ exitCode' # 0
             /\ NoWorker'
             /\ batch' = << >>
             /\ processedIds' = {}
             /\ storeVars' = storeVars]_vars

\* a run has aborted in its setup phase after an earlier run processed a document
C22_Witness ==
    /\ phase = "exited"
    /\ exitCode = 1
    /\ batch = << >>
    /\ \E cid \in Identities : documents[cid].status = "processed"

\* C26: in a run with --dry-run no document worker exists and no step
\* changes the record store, the page store or object storage; the step
\* that computes the queue ends the run.
C26_DryRunWritesNothing ==
    [][(phase # "idle" /\ args.dryRun)
       => /\ NoWorker
          /\ phase # "pool"
          /\ storeVars' = storeVars
          /\ (phase = "scanProcessed" => phase' = "exited" /\ NoWorker')]_vars

\* a dry run has ended with a queue of two documents and nothing started
C26_Witness ==
    /\ phase = "exited"
    /\ args.dryRun
    /\ exitCode = 0
    /\ Len(batch) = 2
    /\ \A i \in 1 .. Len(batch) : outcome[i] = "none"

---------------------------------------------------------------------------
(* Claims on the document worker and its page tasks (SpecDoc) *)

\* C23: once the document worker has made its final status write, the only
\* steps taken for the document are cleanup: no page of it is rendered or
\* put through OCR any more.
C23_OnlyCleanupAfterFinalWrite ==
    [][doc.pc \in {"finally", "returned"}
       => \A t \in PageTasks :
            pageTask'[t] # pageTask[t] => pageTask[t].pc \notin {"render", "ocr1", "ocr2"}]_vars

---------------------------------------------------------------------------
(* SpecArtifact: the runs of index_granth_from_db_ocr500.mjs with the      *)
(* --max-pages flag, which bounds the pages of a document that a run puts  *)
(* through OCR.  The flag is << >> when not given, else << n >>.           *)

\* const pagesToProcess = args.maxPages == null ? totalPages : Math.min(totalPages, args.maxPages)
pagesToProcess(totalPages, maxPages) ==
    IF maxPages = << >> THEN totalPages ELSE Min(totalPages, maxPages[1])

\* pageNumbers = Array.from({ length: pagesToProcess }, (_, i) => i + 1)
pageNumbers(file, maxPages) == 1 .. pagesToProcess(Cardinality(PdfPages(file)), maxPages)

\* main() up to the call of runConcurrent, as StartRun, with args.maxPages
StartArtifactRun(reprocess, concurrency, appId, maxPages) ==
    /\ phase \in {"idle", "exited"}
    /\ LET seen == IF reprocess THEN {} ELSE fetchProcessedIds(documents)
           b    == filtered(Catalog, seen, reprocess)
           n    == IF Len(b) = 0 THEN 0 ELSE numTasks(concurrency, Len(b))
       IN  /\ args' = [reprocess |-> reprocess, concurrency |-> concurrency,
                       appId |-> appId, maxPages |-> maxPages]
           /\ processedIds' = seen
           /\ batch' = b
           /\ next' = n
           /\ task' = [t \in Tasks |-> IF t <= n THEN Handling(t - 1) ELSE NoTask]
           /\ outcome' = [i \in 1 .. Len(b) |-> IF i <= n THEN "running" ELSE "none"]
           /\ ok' = 0
           /\ failed' = 0
           /\ phase' = IF Len(b) = 0 THEN "exited" ELSE "pool"
           /\ exitCode' = IF Len(b) = 0 THEN 0 ELSE -1
    /\ UNCHANGED storeVars
    /\ UNCHANGED <<refAtStart, docVars, pureVars>>

\* downloadToFile ... the empty-result check, over pageNumbers: OCR finds
\* text on every page put through it or on none
DocExtractMax(t) ==
    /\ phase = "pool"
    /\ task[t].pc = "extract"
    /\ \/ \E step \in {"download", "probe", "page", "empty"} : ThrowAt(t, step)
       \/ /\ task' = [task EXCEPT ![t] = [@ EXCEPT !.pc = "clear",
                         !.pages = pageNumbers(batch[task[t].idx], args.maxPages)]]
          /\ UNCHANGED <<outcome, failed>>
    /\ UNCHANGED <<storeVars, phase, args, batch, processedIds, next, ok, exitCode>>
    /\ UNCHANGED <<refAtStart, docVars, pureVars>>

NextArtifact ==
    \/ \E reprocess \in BOOLEAN, appId \in {NULL, "app"}, maxPages \in {<< >>, << 1 >>} :
         StartArtifactRun(reprocess, 1, appId, maxPages)
    \/ \E t \in Tasks : DocPending(t)
    \/ \E t \in Tasks : DocExtractMax(t)
    \/ \E t \in Tasks : DocClearPages(t)
    \/ \E t \in Tasks : DocUpsertPages(t)
    \/ \E t \in Tasks : DocUpload(t)
    \/ \E t \in Tasks : DocMarkProcessed(t)
    \/ \E t \in Tasks : DocCatch(t)
    \/ \E t \in Tasks : DocFinally(t)
    \/ MainResume

SpecArtifact == Init /\ [][NextArtifact]_vars

\* C24: the artifact of a processed document - the object held under its
\* customId - has one row for each page in the page store, the pages
\* upserted by the run that processed it, and no other row.
C24_ArtifactMatchesPages ==
    \A cid \in Identities :
        documents[cid].status = "processed"
        => \E o \in storage : o.customId = cid /\ o.rows = document_pages[cid]

---------------------------------------------------------------------------
(* SpecCsv: a row of the artifact written by index_granth_from_db_ocr500   *)
(* and read back by parseCsvRows of the reader page.  A string is a        *)
(* sequence of characters; every character other than the five named ones  *)
(* is treated alike by both functions and stands as "a".                   *)

MaxTextLen == 3          \* SpecCsv: a field has 0..MaxTextLen characters

Comma  == ","
DQuote == "\""
LF     == "\n"
CR     == "\r"
BOM    == "U+FEFF"

Alphabet == {Comma, DQuote, LF, CR, BOM, "a"}

Strings == UNION { [1 .. n -> Alphabet] : n \in 0 .. MaxTextLen }

\* s.replaceAll('"', '""')
RECURSIVE doubleQuotes(_)
doubleQuotes(s) ==
    IF s = << >> THEN << >>
    ELSE (IF Head(s) = DQuote THEN <<DQuote, DQuote>> ELSE <<Head(s)>>)
         \o doubleQuotes(Tail(s))

\* csvEscape without the \r of its character class
csvEscapeNoCR(s) ==
    IF \E i \in 1 .. Len(s) : s[i] \in {DQuote, Comma, LF}
    THEN <<DQuote>> \o doubleQuotes(s) \o <<DQuote>>
    ELSE s

\* /[",\n\r]/.test(s) ? `"${s.replaceAll('"', '""')}"` : s
csvEscape(s) ==
    IF \E i \in 1 .. Len(s) : s[i] \in {DQuote, Comma, LF, CR}
    THEN <<DQuote>> \o doubleQuotes(s) \o <<DQuote>>
    ELSE s

\* csv[i], undefined past the end
CharAt(csv, i) == IF i \in 1 .. Len(csv) THEN csv[i] ELSE "undefined"

\* the for loop of parseCsvRows from position i on, and the push after it
RECURSIVE ParseLoop(_, _, _, _, _, _)
ParseLoop(csv, i, rows, row, field, inQuotes) ==
    IF i > Len(csv)
    THEN IF Len(field) > 0 \/ Len(row) > 0
         THEN Append(rows, Append(row, field))
         ELSE rows
    ELSE LET ch == csv[i]
         IN  IF inQuotes
             THEN IF ch = DQuote
                  THEN IF CharAt(csv, i + 1) = DQuote
                       THEN ParseLoop(csv, i + 2, rows, row, Append(field, DQuote), TRUE)
                       ELSE ParseLoop(csv, i + 1, rows, row, field, FALSE)
                  ELSE ParseLoop(csv, i + 1, rows, row, Append(field, ch), TRUE)
             ELSE IF ch = DQuote
                  THEN ParseLoop(csv, i + 1, rows, row, field, TRUE)
             ELSE IF ch = Comma
                  THEN ParseLoop(csv, i + 1, rows, Append(row, field), << >>, FALSE)
             ELSE IF ch = LF
                  THEN ParseLoop(csv, i + 1, Append(rows, Append(row, field)),
                                 << >>, << >>, FALSE)
             ELSE IF ch = CR
                  THEN ParseLoop(csv, IF CharAt(csv, i + 1) = LF THEN i + 2 ELSE i + 1,
                                 Append(rows, Append(row, field)), << >>, << >>, FALSE)
             ELSE ParseLoop(csv, i + 1, rows, row, Append(field, ch), FALSE)

IsBlankRow(r) == Len(r) = 1 /\ r[1] = << >>

parseCsvRows(text) ==
    LET csv == IF CharAt(text, 1) = BOM THEN Tail(text) ELSE text
    IN  SelectSeq(ParseLoop(csv, 1, << >>, << >>, << >>, FALSE),
                  LAMBDA r : ~IsBlankRow(r))

\* "pdf_name,custom_id,pdf_url,page_number,text\n", a column name as one character
HeaderLine == <<"a", Comma, "a", Comma, "a", Comma, "a", Comma, "a", LF>>

\* the columns that pass through csvEscape: pdf_name, custom_id, pdf_url, text
EscapedColumns == {1, 2, 3, 5}

\* [csvEscape(pdfName), csvEscape(customId), csvEscape(pdfUrl),
\*  String(page.page_number), csvEscape(page.text)].join(",") + "\n"
\* with s in column col and a plain value in the others
RowLine(s, col) ==
    LET f(c) == IF c = col THEN csvEscape(s) ELSE csvEscape(<<"a">>)
    IN  f(1) \o <<Comma>> \o f(2) \o <<Comma>> \o f(3) \o <<Comma>>
        \o <<"a">> \o <<Comma>> \o f(5) \o <<LF>>

NoCsv == [pc |-> "start", text |-> << >>, rows |-> << >>]

InitCsv ==
    /\ RunIdle
    /\ DocIdle
    /\ input \in [s : Strings, col : EscapedColumns, header : BOOLEAN]
    /\ result = NoCsv

\* writeCsvLine: the header line when the row is read as part of the
\* artifact, then the row
WriteCsvLine ==
    /\ result.pc = "start"
    /\ result' = [result EXCEPT !.pc = "written",
                     !.text = (IF input.header THEN HeaderLine ELSE << >>)
                              \o RowLine(input.s, input.col)]
    /\ UNCHANGED <<storeVars, runVars, refAtStart, docVars, input>>

\* const matrix = parseCsvRows(body)
ParseCsv ==
    /\ result.pc = "written"
    /\ result' = [result EXCEPT !.pc = "parsed", !.rows = parseCsvRows(result.text)]
    /\ UNCHANGED <<storeVars, runVars, refAtStart, docVars, input>>

NextCsv == WriteCsvLine \/ ParseCsv

SpecCsv == InitCsv /\ [][NextCsv]_vars

NeedsQuotes(s) == \E i \in 1 .. Len(s) : s[i] \in {Comma, DQuote, LF, CR}

NumQuotes(s) == Cardinality({i \in 1 .. Len(s) : s[i] = DQuote})

\* the row read back is the last row, has five fields, and holds s in its column
ReadBack ==
    /\ Len(result.rows) = (IF input.header THEN 2 ELSE 1)
    /\ Len(result.rows[Len(result.rows)]) = 5
    /\ result.rows[Len(result.rows)][input.col] = input.s

\* a field quote-wrapped exactly when it has a comma, a double quote, LF or
\* CR, with every double quote inside doubled
EscapeRule ==
    LET e == csvEscape(input.s)
    IN  IF NeedsQuotes(input.s)
        THEN /\ Len(e) = Len(input.s) + NumQuotes(input.s) + 2
             /\ e[1] = DQuote /\ e[Len(e)] = DQuote
             /\ SubSeq(e, 2, Len(e) - 1) = doubleQuotes(input.s)
        ELSE e = input.s

\* the one row parseCsvRows alters: an unquoted first field that opens the
\* input with the byte-order mark
OpensWithBom ==
    ~input.header /\ input.col = 1 /\ CharAt(input.s, 1) = BOM /\ ~NeedsQuotes(input.s)

\* C25 as stated: every string, escaped, placed in a 5-column row and parsed,
\* is read back exactly, and the escape rule holds.
C25_RoundTripEveryString ==
    result.pc = "parsed" => ReadBack /\ EscapeRule

\* C25: a string escaped by csvEscape, placed in a 5-column row and parsed
\* by parseCsvRows is read back exactly, unless the row opens the input and
\* its unquoted first field begins with the byte-order mark, which the
\* reader strips; the escape rule holds for every string.
C25_RoundTrip ==
    result.pc = "parsed" => EscapeRule /\ (ReadBack <=> ~OpensWithBom)

C25_Witness ==
    /\ result.pc = "parsed"
    /\ input.col = 5
    /\ input.s = <<DQuote, CR, Comma>>
    /\ ReadBack

---------------------------------------------------------------------------
(* SpecChunks: page persistence, the chunk loop of the document worker of  *)
(* index_granth_from_db_ocr500.mjs and replacePages of                     *)
(* index_granth_from_db.mjs.  Both are reached with at least one stored    *)
(* page, the empty result having thrown before.                            *)

MaxStoredPages == 401    \* SpecChunks: a document has 1..MaxStoredPages stored pages

PAGE_CHUNK_SIZE == 200

\* upsertPageChunk without `if (chunk.length === 0) return`
sendsChunkAlways(chunk) == TRUE

\* upsertPageChunk: if (chunk.length === 0) return; else one upsert request
sendsChunk(chunk) == Len(chunk) # 0

upsertPageChunk(sent, chunk) == IF sendsChunk(chunk) THEN Append(sent, chunk) ELSE sent

\* pages.slice(i, i + PAGE_CHUNK_SIZE), i counted from 0
Slice(pages, i, j) == SubSeq(pages, i + 1, Min(j, Len(pages)))

\* the stored pages in the order the loop receives them: nonEmptyPages,
\* sorted by page_number
StoredPages(n) == [p \in 1 .. n |-> p]

NoChunks == [pc |-> "loop", i |-> 0, chunk |-> << >>, sent |-> << >>]

InitChunks ==
    /\ RunIdle
    /\ DocIdle
    /\ input \in [script : {"ocr500", "db"}, n : 1 .. MaxStoredPages]
    /\ result = NoChunks

\* for (const page of nonEmptyPages) { chunk.push(pageRow); ...
\*   if (chunk.length >= PAGE_CHUNK_SIZE) { await upsertPageChunk(supabase, chunk); chunk = [] } }
ChunkLoopPush ==
    /\ input.script = "ocr500"
    /\ result.pc = "loop"
    /\ result.i < input.n
    /\ LET chunk == Append(result.chunk, StoredPages(input.n)[result.i + 1])
       IN  result' = IF Len(chunk) >= PAGE_CHUNK_SIZE
                     THEN [result EXCEPT !.i = @ + 1, !.chunk = << >>,
                                         !.sent = upsertPageChunk(@, chunk)]
                     ELSE [result EXCEPT !.i = @ + 1, !.chunk = chunk]
    /\ UNCHANGED <<storeVars, runVars, refAtStart, docVars, input>>

\* await upsertPageChunk(supabase, chunk) after the loop
ChunkLoopLast ==
    /\ input.script = "ocr500"
    /\ result.pc = "loop"
    /\ result.i = input.n
    /\ result' = [result EXCEPT !.pc = "done", !.chunk = << >>,
                                !.sent = upsertPageChunk(@, result.chunk)]
    /\ UNCHANGED <<storeVars, runVars, refAtStart, docVars, input>>

\* replacePages: one turn of for (let i = 0; i < pages.length; i += PAGE_CHUNK_SIZE)
ReplacePagesChunk ==
    /\ input.script = "db"
    /\ result.pc = "loop"
    /\ result.i < input.n
    /\ result' = [result EXCEPT !.i = @ + PAGE_CHUNK_SIZE,
                     !.sent = Append(@, Slice(StoredPages(input.n), result.i,
                                              result.i + PAGE_CHUNK_SIZE))]
    /\ UNCHANGED <<storeVars, runVars, refAtStart, docVars, input>>

\* replacePages returns
ReplacePagesDone ==
    /\ input.script = "db"
    /\ result.pc = "loop"
    /\ result.i >= input.n
    /\ result' = [result EXCEPT !.pc = "done"]
    /\ UNCHANGED <<storeVars, runVars, refAtStart, docVars, input>>

NextChunks == ChunkLoopPush \/ ChunkLoopLast \/ ReplacePagesChunk \/ ReplacePagesDone

SpecChunks == InitChunks /\ [][NextChunks]_vars

RECURSIVE Flatten(_)
Flatten(seqs) == IF seqs = << >> THEN << >> ELSE Head(seqs) \o Flatten(Tail(seqs))

---------------------------------------------------------------------------
(* SpecDb: the runs of index_granth_from_db.mjs.  Its scheduler, pending   *)
(* write, page delete, page upsert and processed write are those of        *)
(* index_granth_from_db_ocr500.mjs and are modelled by the same actions;   *)
(* its queue, extraction, upload, catch block and return are its own.      *)

DbShortErrMax == 1600

\* const batch = queue.slice(start, end) with the default --start-at 0 and no --limit
StartDbRun(reprocess, concurrency) ==
    /\ phase \in {"idle", "exited"}
    /\ LET seen == IF reprocess THEN {} ELSE fetchProcessedIds(documents)
           b    == queue(Catalog, seen, reprocess)
           n    == numTasks(concurrency, Len(b))
       IN  /\ args' = [reprocess |-> reprocess, concurrency |-> concurrency, appId |-> NULL]
           /\ processedIds' = seen
           /\ batch' = b
           /\ next' = n
           /\ task' = [t \in Tasks |-> IF t <= n THEN Handling(t - 1) ELSE NoTask]
           /\ outcome' = [i \in 1 .. Len(b) |-> IF i <= n THEN "running" ELSE "none"]
           /\ ok' = 0
           /\ failed' = 0
           /\ phase' = IF Len(b) = 0 THEN "exited" ELSE "pool"
           /\ exitCode' = IF Len(b) = 0 THEN 0 ELSE -1
    /\ UNCHANGED storeVars
    /\ UNCHANGED <<refAtStart, docVars, pureVars>>

\* fetch(pdfUrl), extractViaPython, the hasMeaningfulText filter and the
\* empty-result check; a row without a URL cannot be downloaded
DbExtract(t) ==
    /\ phase = "pool"
    /\ task[t].pc = "extract"
    /\ LET file == batch[task[t].idx]
       IN  \/ ThrowAt(t, "download")
           \/ /\ Truthy(file.ufs_url)
              /\ \/ \E step \in {"extract", "empty"} : ThrowAt(t, step)
                 \/ /\ task' = [task EXCEPT ![t] = [@ EXCEPT !.pc = "clear",
                                                       !.pages = PdfPages(file)]]
                    /\ UNCHANGED <<outcome, failed>>
    /\ UNCHANGED <<storeVars, phase, args, batch, processedIds, next, ok, exitCode>>
    /\ UNCHANGED <<refAtStart, docVars, pureVars>>

\* uploadCsv(utapi, csvBuf, csvName): an upload with no customId, which
\* storage keeps under a key of its own or refuses with an error
DbUpload(t) ==
    /\ phase = "pool"
    /\ task[t].pc = "upload"
    /\ \/ /\ ThrowAt(t, "upload")
          /\ UNCHANGED storage
       \/ /\ storage' = PutObject(storage, NULL, task[t].pages)
          /\ task' = [task EXCEPT ![t] = [@ EXCEPT !.pc = "mark",
                          !.csvUrl = ObjUrl, !.csvKey = ObjKey]]
          /\ UNCHANGED <<outcome, failed>>
    /\ UNCHANGED <<documents, document_pages, phase, args, batch, processedIds, next, ok,
                   exitCode>>
    /\ UNCHANGED <<refAtStart, docVars, pureVars>>

\* catch (e) { failed++; ...; await upsertDocFailed(supabase, docPayload, msg) }
\* upsertDocFailed awaits the upsert and never reads its `error`
DbCatch(t) ==
    /\ phase = "pool"
    /\ task[t].pc = "catch"
    /\ \E storeErr \in BOOLEAN, len \in {DbShortErrMax, DbShortErrMax + 1} :
         IF storeErr
         THEN /\ task' = [task EXCEPT ![t] = [@ EXCEPT !.pc = "finally", !.step = "",
                              !.failWrite = "ignored"]]
              /\ UNCHANGED documents
         ELSE /\ documents' = upsertDocFailed(documents, Cid(t), shortErr(len, DbShortErrMax))
              /\ task' = [task EXCEPT ![t] = [@ EXCEPT !.pc = "finally", !.step = "",
                              !.failWrite = "ok"]]
    /\ UNCHANGED <<document_pages, storage, phase, args, batch, processedIds, next,
                   outcome, ok, failed, exitCode>>
    /\ UNCHANGED <<refAtStart, docVars, pureVars>>

\* the handler returns and the task takes its next turn: const idx = next++
DbReturn(t) ==
    /\ phase = "pool"
    /\ task[t].pc = "finally"
    /\ next' = nextAfterPull(next)
    /\ IF next >= Len(batch)
       THEN /\ task' = [task EXCEPT ![t] = [NoTask EXCEPT !.pc = "done"]]
            /\ UNCHANGED outcome
       ELSE /\ task' = [task EXCEPT ![t] = Handling(next)]
            /\ outcome' = [outcome EXCEPT ![next + 1] = "running"]
    /\ UNCHANGED <<storeVars, phase, args, batch, processedIds, ok, failed, exitCode>>
    /\ UNCHANGED <<refAtStart, docVars, pureVars>>

NextDb ==
    \/ \E reprocess \in BOOLEAN, concurrency \in 1 .. MaxConcurrency :
         StartDbRun(reprocess, concurrency)
    \/ \E t \in Tasks : DocPending(t)
    \/ \E t \in Tasks : DbExtract(t)
    \/ \E t \in Tasks : DocClearPages(t)
    \/ \E t \in Tasks : DocUpsertPages(t)
    \/ \E t \in Tasks : DbUpload(t)
    \/ \E t \in Tasks : DocMarkProcessed(t)
    \/ \E t \in Tasks : DbCatch(t)
    \/ \E t \in Tasks : DbReturn(t)
    \/ MainResume

SpecDb == Init /\ [][NextDb]_vars

\* C28: a failed write that met a store error is logged and swallowed: the
\* handler returns normally and the document stays counted as failed; and
\* a run whose handlers all returned ends with exit code 0.
C28_FailedWriteErrorLogged ==
    /\ \A t \in Tasks :
         task[t].failWrite \in {"error", "ignored"}
         => /\ task[t].failWrite = "error"
            /\ ~task[t].propagate
            /\ outcome[task[t].idx] = "failed"
    /\ phase = "exited" => exitCode = 0

---------------------------------------------------------------------------
(* SpecKill: the runs of index_granth_from_db_ocr500.mjs, the last of      *)
(* which is ended by a kill of the process.  After the kill `task` is the  *)
(* record of where each document worker stood when the process died.       *)

KillProcess ==
    /\ phase = "pool"
    /\ input = << >>
    /\ phase' = "exited"
    /\ exitCode' = 137
    /\ input' = Killed
    /\ UNCHANGED <<storeVars, args, batch, processedIds, next, task, outcome, ok, failed>>
    /\ UNCHANGED <<refAtStart, docVars, result>>

NextKill == (input = << >> /\ Next) \/ KillProcess

SpecKill == Init /\ [][NextKill]_vars

\* the worker has returned from clearPages and not yet from its last upsertPageChunk
BetweenDeleteAndReinsert(t) == task[t].pc = "upsert"

\* markDocProcessed alone writes csv_url, and neither the pending nor the
\* failed write touches it: a record with a csv_url was processed before
PreviouslyProcessed(cid) == documents[cid].csv_url # NULL

---------------------------------------------------------------------------
(* The page pool after the document worker has returned (SpecDoc) *)

\* C30: after the document worker has returned (final status recorded, PDF
\* unlinked) every page task of the document has stopped, and no page
\* handler in its render or OCR began with the PDF already unlinked.
C30_NoPageWorkAfterUnlink ==
    /\ doc.pc = "returned" => \A t \in PageTasks : Stopped(pageTask[t])
    /\ \A t \in PageTasks :
         pageTask[t].pc \in {"render", "ocr1", "ocr2"} => pageTask[t].pdfAtStart

---------------------------------------------------------------------------
(* SpecPools: the outer document pool and the inner page pools of          *)
(* index_granth_from_db_ocr500.mjs together.  `batch` is the page count of *)
(* each document, `task` the outer tasks, pageTask[d] the page tasks that  *)
(* runConcurrent created for document d and pnext[d] their shared cursor.  *)
(* A page handler (render, OCR, push, unlink) is one step here; its awaits *)
(* are the subject of SpecDoc, the ok / failed counters that of Spec.       *)

MaxPoolDocs == 2         \* SpecPools: a batch has 1..MaxPoolDocs documents
MaxPoolPages == 2        \* SpecPools: a document of the batch has 1..MaxPoolPages pages

MaxPoolConcurrency == 1  \* SpecPools: --concurrency is drawn from 1..MaxPoolConcurrency

OuterTasks == 1 .. MaxPoolConcurrency

PageCounts == UNION { [1 .. n -> 1 .. MaxPoolPages] : n \in 1 .. MaxPoolDocs }

\* the page tasks of a document whose handler is running
InHandler(d) == { p \in PageTasks : pageTask[d][p] = "handler" }

\* the page tasks in flight across all documents
PagesInFlight == UNION { { <<d, p>> : p \in InHandler(d) } : d \in 1 .. Len(batch) }

\* an outer task that has pulled the 0-based index i: its handler runs the
\* pending write, the download and the page-count probe
Pulled(i) == [pc |-> "download", idx |-> i + 1]

InitPools ==
    /\ documents = [cid \in Identities |-> AbsentRow]
    /\ document_pages = [cid \in Identities |-> {}]
    /\ storage = {}
    /\ args \in [concurrency : 1 .. MaxPoolConcurrency,
               pageConcurrency : 1 .. MaxPageConcurrency]
    /\ batch \in PageCounts
    /\ phase = "pool"
    /\ processedIds = {}
    /\ next = numTasks(args.concurrency, Len(batch))
    /\ task = [t \in OuterTasks |->
                 IF t <= numTasks(args.concurrency, Len(batch)) THEN Pulled(t - 1)
                 ELSE [pc |-> "none", idx |-> 0]]
    /\ outcome = << >>
    /\ ok = 0
    /\ failed = 0
    /\ exitCode = -1
    /\ refAtStart = << >>
    /\ doc = [pc |-> "none"]
    /\ pageTask = [d \in 1 .. Len(batch) |-> [p \in PageTasks |-> "none"]]
    /\ pnext = [d \in 1 .. Len(batch) |-> 0]
    /\ pageResults = << >>
    /\ images = {}
    /\ PureIdle

PoolFrame ==
    UNCHANGED <<storeVars, phase, args, batch, processedIds, outcome, ok, failed,
                exitCode, refAtStart, doc, pageResults, images, pureVars>>

\* the steps of the worker up to runConcurrent(pageNumbers, args.pageConcurrency, ...):
\* one of them throws, or the page tasks are created and each pulls a page
WorkerStartsPagePool(t) ==
    /\ task[t].pc = "download"
    /\ LET d == task[t].idx
           n == numTasks(args.pageConcurrency, batch[d])
       IN  \/ /\ task' = [task EXCEPT ![t].pc = "catch"]
              /\ UNCHANGED <<pageTask, pnext>>
           \/ /\ task' = [task EXCEPT ![t].pc = "pool"]
              /\ pageTask' = [pageTask EXCEPT ![d] =
                                 [p \in PageTasks |-> IF p <= n THEN "handler" ELSE "none"]]
              /\ pnext' = [pnext EXCEPT ![d] = n]
    /\ UNCHANGED next
    /\ PoolFrame

\* a page handler returns and its task takes the next turn of its loop
PageHandlerReturns(d, p) ==
    /\ pageTask[d][p] = "handler"
    /\ pnext' = [pnext EXCEPT ![d] = nextAfterPull(@)]
    /\ pageTask' = [pageTask EXCEPT ![d][p] =
                       IF pnext[d] >= batch[d] THEN "done" ELSE "handler"]
    /\ UNCHANGED <<next, task>>
    /\ PoolFrame

\* a page handler throws (render or OCR exits non-zero): its task rejects
PageHandlerThrows(d, p) ==
    /\ pageTask[d][p] = "handler"
    /\ pageTask' = [pageTask EXCEPT ![d][p] = "rejected"]
    /\ UNCHANGED <<next, task, pnext>>
    /\ PoolFrame

\* await Promise.all(workers) of the page pool settles: it rejects as soon
\* as one page task has rejected, and resolves when all have returned
PagePoolSettles(t) ==
    /\ task[t].pc = "pool"
    /\ LET d == task[t].idx
       IN  \/ /\ \E p \in PageTasks : pageTask[d][p] = "rejected"
              /\ task' = [task EXCEPT ![t].pc = "catch"]
           \/ /\ \A p \in PageTasks : pageTask[d][p] \in {"none", "done"}
              /\ task' = [task EXCEPT ![t].pc = "store"]
    /\ UNCHANGED <<next, pageTask, pnext>>
    /\ PoolFrame

\* the empty-result check, clearPages, the chunk loop, uploadCsv and
\* markDocProcessed: one of them throws,
WorkerStores(t) ==
    /\ task[t].pc = "store"
    /\ \/ /\ task' = [task EXCEPT ![t].pc = "catch"]
       \/ /\ task' = [task EXCEPT ![t].pc = "finally"]
    /\ UNCHANGED <<next, pageTask, pnext>>
    /\ PoolFrame

\* catch: upsertDocFailed, which does not throw
WorkerCatches(t) ==
    /\ task[t].pc = "catch"
    /\ task' = [task EXCEPT ![t].pc = "finally"]
    /\ UNCHANGED <<next, pageTask, pnext>>
    /\ PoolFrame

\* finally, the return of the worker, and the outer task's next turn
WorkerReturns(t) ==
    /\ task[t].pc = "finally"
    /\ next' = nextAfterPull(next)
    /\ task' = [task EXCEPT ![t] =
                   IF next >= Len(batch) THEN [pc |-> "done", idx |-> 0] ELSE Pulled(next)]
    /\ UNCHANGED <<pageTask, pnext>>
    /\ PoolFrame

\* await Promise.all(workers) of the outer pool resolves - no outer task
\* can reject, the worker catching every error - and main logs the summary
PoolsResume ==
    /\ phase = "pool"
    /\ \A t \in OuterTasks : task[t].pc \in {"none", "done"}
    /\ phase' = "exited"
    /\ exitCode' = 0
    /\ UNCHANGED <<storeVars, args, batch, processedIds, next, task, outcome, ok, failed,
                   refAtStart, docVars, pureVars>>

NextPools ==
    \/ \E t \in OuterTasks : WorkerStartsPagePool(t)
    \/ \E d \in 1 .. Len(batch), p \in PageTasks : PageHandlerReturns(d, p)
    \/ \E d \in 1 .. Len(batch), p \in PageTasks : PageHandlerThrows(d, p)
    \/ \E t \in OuterTasks : PagePoolSettles(t)
    \/ \E t \in OuterTasks : WorkerStores(t)
    \/ \E t \in OuterTasks : WorkerCatches(t)
    \/ \E t \in OuterTasks : WorkerReturns(t)
    \/ PoolsResume

SpecPools == InitPools /\ [][NextPools]_vars

\* C31: at every moment at most concurrency x pageConcurrency page tasks
\* are in flight across all documents.
C31_PageTasksBounded ==
    Cardinality(PagesInFlight) <= args.concurrency * args.pageConcurrency

---------------------------------------------------------------------------
(* The artifact reference of a processed record (SpecArtifact) *)

\* C32: whenever a record is processed and references an artifact, every
\* object held under the identity's key has exactly the page rows now in
\* the page store for that identity.
C32_ReferencedArtifactCurrent ==
    \A cid \in Identities :
        (documents[cid].status = "processed" /\ documents[cid].csv_url # NULL)
        => \A o \in storage : o.customId = cid => o.rows = document_pages[cid]

---------------------------------------------------------------------------
(* SpecUpload: the runs of index_granth_from_db_ocr500.mjs at              *)
(* --concurrency 1, with `result` holding the last response of             *)
(* utapi.uploadFiles (history).                                            *)

\* const { csvUrl, csvKey } = await uploadCsv(...), as DocUpload, recording `first`
DocUploadRecorded(t) ==
    /\ phase = "pool"
    /\ task[t].pc = "upload"
    /\ \E first \in UploadResponses(HasObject(storage, Cid(t))),
          lookup \in LookupResponses(HasObject(storage, Cid(t))) :
         LET r == uploadCsv(first, lookup, args.appId)
         IN  /\ storage' = IF first.kind = "ok"
                            THEN PutObject(storage, Cid(t), task[t].pages) ELSE storage
             /\ result' = << first >>
             /\ IF r.throws
                THEN ThrowAt(t, "upload")
                ELSE /\ task' = [task EXCEPT ![t] = [@ EXCEPT !.pc = "mark",
                                     !.csvUrl = r.csvUrl, !.csvKey = r.csvKey]]
                     /\ UNCHANGED <<outcome, failed>>
    /\ UNCHANGED <<documents, document_pages, phase, args, batch, processedIds, next, ok, exitCode>>
    /\ UNCHANGED <<refAtStart, docVars, input>>

NextUpload ==
    \/ \E reprocess \in BOOLEAN, appId \in {NULL, "app"} : StartRun(reprocess, 1, appId)
    \/ \E t \in Tasks : DocPending(t)
    \/ \E t \in Tasks : DocExtract(t)
    \/ \E t \in Tasks : DocClearPages(t)
    \/ \E t \in Tasks : DocUpsertPages(t)
    \/ \E t \in Tasks : DocUploadRecorded(t)
    \/ \E t \in Tasks : DocMarkProcessed(t)
    \/ \E t \in Tasks : DocCatch(t)
    \/ \E t \in Tasks : DocFinally(t)
    \/ MainResume

SpecUpload == Init /\ [][NextUpload]_vars

\* C33: a worker that uploadCsv returned to - at its processed write, or
\* past it with the document processed - had its upload accepted or
\* refused for a key conflict; after any other upload error it is not there.
C33_ExistingOnlyOnConflict ==
    \A t \in Tasks :
        (\/ task[t].pc = "mark"
         \/ task[t].pc = "finally" /\ outcome[task[t].idx] = "ok")
        => (result[1].kind = "error" => result[1].match)

---------------------------------------------------------------------------
(* Failures before page replacement (Spec) *)

StepsBeforeReplacement == {"pending", "download", "probe", "page", "empty"}

\* the worker has not reached clearPages, or is in the catch block entered
\* from a step before it
BeforeReplacement(t) ==
    /\ phase = "pool"
    /\ \/ task[t].pc \in {"pending", "extract"}
       \/ task[t].pc = "catch" /\ task[t].step \in StepsBeforeReplacement

\* C34: while a document worker is before page replacement, or is failing
\* from a step before it, no step changes the page rows stored for its
\* identity or the record's csv_url and csv_key.
C34_EarlyFailureKeepsStored ==
    [][\A t \in Tasks :
         BeforeReplacement(t)
         => /\ document_pages'[Cid(t)] = document_pages[Cid(t)]
            /\ documents'[Cid(t)].csv_url = documents[Cid(t)].csv_url
            /\ documents'[Cid(t)].csv_key = documents[Cid(t)].csv_key]_vars

\* a --reprocess run in which a processed document, its pages and its
\* reference stored, has thrown at a page and is in its catch block
C34_Witness ==
    /\ phase = "pool"
    /\ args.reprocess
    /\ \E t \in Tasks :
         /\ task[t].pc = "catch"
         /\ task[t].step = "page"
         /\ Cid(t) = "granth_2"
         /\ documents[Cid(t)].status = "pending"
         /\ documents[Cid(t)].csv_url = ObjUrl
         /\ document_pages[Cid(t)] = {1, 2}

---------------------------------------------------------------------------
(* The ok / failed counters (Spec, SpecDb) *)

Counted(as) == { i \in 1 .. Len(batch) : outcome[i] = as }

\* C35: the counters are the numbers of documents that ended processed and
\* failed, each document in one of them at most; when the run has ended
\* with its summary they add up to the batch size; and a document is
\* counted as processed in the very step in which its processed write
\* succeeds, and in no other.
C35_CountedOnce ==
    /\ [](phase \in {"pool", "exited"}
          => /\ ok = Cardinality(Counted("ok"))
             /\ failed = Cardinality(Counted("failed"))
             /\ (phase = "exited" /\ exitCode = 0)
                => Counted("ok") \cup Counted("failed") = 1 .. Len(batch))
    /\ [][phase = "pool"
          => /\ ok' \in {ok, ok + 1}
             /\ ok' = ok + 1
                <=> \E t \in Tasks :
                      /\ task[t].pc = "mark"
                      /\ task'[t].pc = "finally"
                      /\ documents'[Cid(t)].status = "processed"
                      /\ outcome'[task[t].idx] = "ok"]_vars

\* a run at concurrency 2 ended with the first document processed and the
\* second failed
C35_Witness ==
    /\ phase = "exited"
    /\ exitCode = 0
    /\ args.concurrency = 2
    /\ Len(batch) = 2
    /\ ok = 1 /\ failed = 1
    /\ outcome = <<"ok", "failed">>

---------------------------------------------------------------------------
(* SpecPoolsLive: SpecPools in which every external call returns or fails  *)
(* - every awaited step of a worker and every page handler is eventually   *)
(* completed - and the event loop runs every continuation that is ready.   *)

MaxLivePages == 4        \* SpecPoolsLive: the documents of a batch have at most MaxLivePages pages together

RECURSIVE SumOf(_)
SumOf(counts) == IF counts = << >> THEN 0 ELSE Head(counts) + SumOf(Tail(counts))

InitPoolsLive ==
    /\ InitPools
    /\ SumOf(batch) <= MaxLivePages

FairPools ==
    /\ \A t \in OuterTasks :
         WF_vars(WorkerStartsPagePool(t) \/ PagePoolSettles(t) \/ WorkerStores(t)
                 \/ WorkerCatches(t) \/ WorkerReturns(t))
    /\ \A d \in 1 .. MaxPoolDocs, p \in PageTasks :
         WF_vars(d <= Len(batch) /\ (PageHandlerReturns(d, p) \/ PageHandlerThrows(d, p)))
    /\ WF_vars(PoolsResume)

SpecPoolsLive == InitPoolsLive /\ [][NextPools]_vars /\ FairPools

\* every outer task has left its loop, the cursor is at or past the batch
\* size and main is past the pool, at its summary
RunEnded ==
    /\ phase = "exited"
    /\ next >= Len(batch)
    /\ \A t \in OuterTasks : task[t].pc \in {"none", "done"}

\* C36: the run terminates: eventually every task of the outer pool has
\* exited, the cursor is at or beyond the batch size and the summary is
\* reached, and it stays so.
C36_RunTerminates == <>[]RunEnded

\* a run ended after a document failed and another was stored
C36_Witness ==
    /\ RunEnded
    /\ Len(batch) = 2
    /\ \E p \in PageTasks : pageTask[1][p] = "rejected"
    /\ \A p \in PageTasks : pageTask[2][p] \in {"none", "done"}
    /\ pnext[2] > batch[2]
    /\ \E p \in PageTasks : pageTask[1][p] = "done"

---------------------------------------------------------------------------
(* SpecSlice: the batch cut from the filtered queue by --startAt and       *)
(* --limit, in index_granth_from_db_ocr500.mjs, generate_granth_covers.mjs *)
(* and the manifest-driven script.  The queue is the items 1..n; a flag    *)
(* parsed by parseIntFlag(..., 0) is an integer >= 0; --limit not given    *)
(* (null) is << >>, given is << n >>.                                      *)

MaxQueueLen == 3         \* SpecSlice: the filtered queue has 0..MaxQueueLen items
MaxFlag == 4             \* SpecSlice: --startAt and --limit are drawn from 0..MaxFlag

\* Array.prototype.slice(start, end) for start >= 0: both ends are clamped
\* to the length, end undefined (<< >>) is the length
jsSlice(arr, start, end) ==
    LET k     == Min(start, Len(arr))
        final == IF end = << >> THEN Len(arr) ELSE Min(end[1], Len(arr))
    IN  [i \in 1 .. (IF final > k THEN final - k ELSE 0) |-> arr[k + i]]

\* the slice taken from the first item whatever --startAt
sliceStartZero(startAt, n) == 0

\* const start = Math.min(args.startAt, filtered.length)
sliceStart(startAt, n) == Min(startAt, n)

\* index_granth_from_db_ocr500.mjs:
\* end = args.limit == null ? filtered.length : Math.min(filtered.length, start + args.limit)
\* batch = filtered.slice(start, end)
batchOcr500(q, startAt, limit) ==
    LET start == sliceStart(startAt, Len(q))
        end   == IF limit = << >> THEN Len(q) ELSE Min(Len(q), start + limit[1])
    IN  jsSlice(q, start, << end >>)

\* generate_granth_covers.mjs:
\* end = args.limit == null ? eligible.length : start + args.limit
\* queue = eligible.slice(start, end)
queueCovers(q, startAt, limit) ==
    LET start == sliceStart(startAt, Len(q))
        end   == IF limit = << >> THEN Len(q) ELSE start + limit[1]
    IN  jsSlice(q, start, << end >>)

\* the manifest-driven script:
\* endIndex = args.limit == null ? undefined : safeStartAt + args.limit
\* queue = matched.slice(safeStartAt, endIndex)
queueManifest(q, startAt, limit) ==
    LET safeStartAt == sliceStart(startAt, Len(q))
        endIndex    == IF limit = << >> THEN << >> ELSE << safeStartAt + limit[1] >>
    IN  jsSlice(q, safeStartAt, endIndex)

Limits == {<< >>} \cup { << k >> : k \in 0 .. MaxFlag }

NoSlice == [pc |-> "start", batch |-> << >>]

InitSlice ==
    /\ RunIdle
    /\ DocIdle
    /\ input \in [script : {"ocr500", "covers", "manifest"}, n : 0 .. MaxQueueLen,
                  startAt : 0 .. MaxFlag, limit : Limits]
    /\ result = NoSlice

SliceOcr500 ==
    /\ input.script = "ocr500"
    /\ result.pc = "start"
    /\ result' = [pc |-> "sliced",
                  batch |-> batchOcr500([i \in 1 .. input.n |-> i], input.startAt, input.limit)]
    /\ UNCHANGED <<storeVars, runVars, refAtStart, docVars, input>>

SliceCovers ==
    /\ input.script = "covers"
    /\ result.pc = "start"
    /\ result' = [pc |-> "sliced",
                  batch |-> queueCovers([i \in 1 .. input.n |-> i], input.startAt, input.limit)]
    /\ UNCHANGED <<storeVars, runVars, refAtStart, docVars, input>>

SliceManifest ==
    /\ input.script = "manifest"
    /\ result.pc = "start"
    /\ result' = [pc |-> "sliced",
                  batch |-> queueManifest([i \in 1 .. input.n |-> i], input.startAt, input.limit)]
    /\ UNCHANGED <<storeVars, runVars, refAtStart, docVars, input>>

NextSlice == SliceOcr500 \/ SliceCovers \/ SliceManifest

SpecSlice == InitSlice /\ [][NextSlice]_vars

\* C37: the batch is the run of queue items that starts after the first
\* min(startAt, length) ones, in queue order, as long as the limit allows
\* and the queue lasts: all remaining items without --limit, none with
\* --limit 0, and no item from past the end of the queue.
C37_BatchIsSlice ==
    result.pc = "sliced"
    => LET skipped == IF input.startAt < input.n THEN input.startAt ELSE input.n
           left    == input.n - skipped
       IN  /\ \A i \in 1 .. Len(result.batch) : result.batch[i] = skipped + i
           /\ skipped + Len(result.batch) <= input.n
           /\ input.limit = << >> => Len(result.batch) = left
           /\ input.limit # << >>
              => Len(result.batch) = (IF input.limit[1] < left THEN input.limit[1] ELSE left)

\* a limit that reaches past the end of the queue, in the script that does
\* not clamp it itself
C37_Witness ==
    /\ result.pc = "sliced"
    /\ input.script = "covers"
    /\ input.n = 3 /\ input.startAt = 2 /\ input.limit = << 4 >>
    /\ result.batch = << 3 >>

---------------------------------------------------------------------------
(* SpecList: listAllUploadThingFiles of the manifest-driven script against *)
(* a listing service that may answer each request with any response: a     *)
(* plain array, or an object with any of files, hasMore, nextCursor and    *)
(* cursor, or an error.  One step per turn of the `while (true)` loop; the *)
(* page cap is MaxListPages in place of 10000.                             *)

MaxListPages == 2        \* SpecList: the cap on pageCount, 10000 in the source

Absent == "absent"

\* the files a response can list: with a key, or with a name only
ListedFiles == { [key |-> "k1", name |-> "a"], [key |-> "k2", name |-> "a"],
                 [key |-> Absent, name |-> "a"] }

FilePages == {<< >>} \cup { << f >> : f \in ListedFiles } \cup { << f, f >> : f \in ListedFiles }

ListResponses ==
    { [kind |-> "array", files |-> fs, hasMore |-> Absent, nextCursor |-> Absent,
       cursor |-> Absent] : fs \in FilePages }
    \cup [kind : {"object"}, files : FilePages, hasMore : {Absent, "true", "false"},
          nextCursor : {Absent, "", "c"}, cursor : {Absent, "c"}]

\* the dedup loop kept as a plain copy
uniqueKeepsAll(all) == all

\* sig = key ? `k:${key}` : `n:${name}`
Sig(file) == IF file.key # Absent THEN <<"k", file.key>> ELSE <<"n", file.name>>

\* the dedup loop: the first file of each signature, in order
RECURSIVE unique(_)
unique(all) ==
    IF all = << >> THEN << >>
    ELSE LET init == unique(SubSeq(all, 1, Len(all) - 1))
             last == all[Len(all)]
         IN  IF \E i \in 1 .. Len(init) : Sig(init[i]) = Sig(last) THEN init
             ELSE Append(init, last)

\* if (pageCount > 10000) throw
exceedsPageCap(pageCount) == pageCount > MaxListPages

InitList ==
    /\ RunIdle
    /\ DocIdle
    /\ input = << >>
    /\ result = [pc |-> "loop", mode |-> "unknown", pageCount |-> 0, cursor |-> Absent,
                 all |-> << >>, out |-> << >>]

\* the loop is left: the dedup pass and the return
Returned(st, all) == [st EXCEPT !.pc = "returned", !.all = all, !.out = unique(all)]

\* the turn of the loop after listFiles has answered with `response`
ListTurn(response) ==
    LET all  == result.all \o response.files
        mode == IF result.mode # "unknown" THEN result.mode
                ELSE IF response.hasMore # Absent THEN "offset"
                ELSE IF response.nextCursor # Absent \/ response.cursor # Absent THEN "cursor"
                ELSE "unknown"
        nextCursor == IF response.nextCursor # Absent THEN response.nextCursor
                      ELSE IF response.cursor # Absent THEN response.cursor
                      ELSE ""
        st   == [result EXCEPT !.mode = mode]
    IN  IF response.kind = "array" THEN Returned(result, all)
        ELSE IF mode = "unknown" THEN Returned(st, all)
        ELSE IF mode = "offset"
        THEN IF response.hasMore # "true" \/ Len(response.files) = 0
             THEN Returned(st, all)
             ELSE [st EXCEPT !.all = all, !.pageCount = @ + 1]
        ELSE IF nextCursor = "" \/ Len(response.files) = 0
             THEN Returned(st, all)
             ELSE [st EXCEPT !.all = all, !.pageCount = @ + 1, !.cursor = nextCursor]

\* pageCount is past the cap at the top of the loop: throw
ListAborts ==
    /\ result.pc = "loop"
    /\ exceedsPageCap(result.pageCount)
    /\ result' = [result EXCEPT !.pc = "thrown"]
    /\ UNCHANGED <<storeVars, runVars, refAtStart, docVars, input>>

\* utapi.listFiles rejects (in mode unknown, the call without arguments too)
ListFilesThrows ==
    /\ result.pc = "loop"
    /\ ~exceedsPageCap(result.pageCount)
    /\ result' = [result EXCEPT !.pc = "thrown"]
    /\ UNCHANGED <<storeVars, runVars, refAtStart, docVars, input>>

ListFilesAnswers ==
    /\ result.pc = "loop"
    /\ ~exceedsPageCap(result.pageCount)
    /\ \E response \in ListResponses : result' = ListTurn(response)
    /\ UNCHANGED <<storeVars, runVars, refAtStart, docVars, input>>

NextList == ListAborts \/ ListFilesThrows \/ ListFilesAnswers

\* every request is answered or fails
SpecList == InitList /\ [][NextList]_vars /\ WF_vars(NextList)

\* C38: the loop ends, by a return or a throw, whatever the responses; it
\* never asks for a page with pageCount past the cap; and the list returned
\* holds each file key at most once.
C38_ListTerminatesUnique ==
    /\ <>(result.pc \in {"returned", "thrown"})
    /\ [](result.pageCount <= MaxListPages + 1)
    /\ [](result.pc = "returned"
          => \A i, j \in 1 .. Len(result.out) :
               (result.out[i].key # Absent /\ result.out[i].key = result.out[j].key) => i = j)

\* cursor-style pages that repeated a key, ended by a page with no cursor
C38_Witness ==
    /\ result.pc = "returned"
    /\ result.mode = "cursor"
    /\ result.pageCount = MaxListPages
    /\ Len(result.all) > Len(result.out)
    /\ Len(result.out) = 3


---------------------------------------------------------------------------
(* SpecSync: main() of sync-ocr-to-supabase after the upload logs are      *)
(* parsed - the paged scan of the ufs_url values already in the table, the  *)
(* filter, and the batch insert with its one-by-one retry.  The table      *)
(* starts with n records (ufs_url 1..n); whether it refuses a second       *)
(* record with the same ufs_url (error 23505) is an input, since the       *)
(* schema is not part of the script.                                       *)

MaxTableRows == 3        \* the table starts with 0..MaxTableRows records
MaxSyncRows == 2         \* 1..MaxSyncRows records are parsed from the logs
MaxBatchSize == 2        \* BATCH_SIZE is drawn from 1..MaxBatchSize

SyncUrls == 1 .. (MaxTableRows + 1)

\* .select("ufs_url").range(...) sends no .order(): each request lists the
\* table in an arrangement of the store's choosing
ExistingOrders(n) == Orders(n)

\* rows.filter((r) => !existingUrls.has(r.ufs_url)), as positions in rows
RECURSIVE filterNew(_, _, _)
filterNew(rows, existingUrls, k) ==
    IF k > Len(rows) THEN << >>
    ELSE (IF rows[k] \in existingUrls THEN << >> ELSE << k >>)
         \o filterNew(rows, existingUrls, k + 1)

InitSync ==
    /\ RunIdle
    /\ DocIdle
    /\ input \in [n : 0 .. MaxTableRows,
                  rows : UNION { [1 .. m -> SyncUrls] : m \in 1 .. MaxSyncRows },
                  uniqueUrl : BOOLEAN,
                  PAGE : 1 .. MaxPageSize,
                  BATCH_SIZE : 1 .. MaxBatchSize]
    /\ result = [pc |-> "scan", offset |-> 0, existingUrls |-> {}, newRows |-> << >>,
                 i |-> 0, retry |-> << >>, inserted |-> 0, failed |-> 0,
                 log |-> << >>, failedRows |-> {}, dupRows |-> {}]

\* the ufs_url values in the table: those it started with and those inserted
TableUrls == (1 .. input.n) \cup { input.rows[result.log[k]] : k \in 1 .. Len(result.log) }

\* the table refuses the batch with 23505: it holds a ufs_url of the table, or
\* the same ufs_url twice
Conflicts(rowsOfBatch) ==
    /\ input.uniqueUrl
    /\ \/ \E k \in 1 .. Len(rowsOfBatch) : input.rows[rowsOfBatch[k]] \in TableUrls
       \/ \E k, l \in 1 .. Len(rowsOfBatch) : k # l /\ input.rows[rowsOfBatch[k]] = input.rows[rowsOfBatch[l]]

SyncFrame == UNCHANGED <<storeVars, runVars, refAtStart, docVars, input>>

\* one turn of the scan loop
SyncScanPage ==
    /\ result.pc = "scan"
    /\ \/ result' = [result EXCEPT !.pc = "exit"]
       \/ \E order \in ExistingOrders(input.n) :
            LET data == Range(order, result.offset, input.PAGE)
            IN  IF Len(data) = 0
                THEN result' = [result EXCEPT !.pc = "filter"]
                ELSE result' = [result EXCEPT
                        !.existingUrls = @ \cup SeqToSet(data),
                        !.offset = @ + input.PAGE,
                        !.pc = IF Len(data) < input.PAGE THEN "filter" ELSE "scan"]
    /\ SyncFrame

\* newRows, and the return when there is none
SyncFilter ==
    /\ result.pc = "filter"
    /\ LET newRows == filterNew(input.rows, result.existingUrls, 1)
       IN  result' = [result EXCEPT !.newRows = newRows,
                                    !.pc = IF Len(newRows) = 0 THEN "done" ELSE "insert"]
    /\ SyncFrame

\* one turn of the batch loop: insert(batch) succeeds whole, or fails whole
\* and the batch goes to the one-by-one retry
SyncInsertBatch ==
    /\ result.pc = "insert"
    /\ result.i < Len(result.newRows)
    /\ LET rowsOfBatch == jsSlice(result.newRows, result.i, << result.i + input.BATCH_SIZE >>)
       IN  \/ /\ ~Conflicts(rowsOfBatch)
              /\ result' = [result EXCEPT !.inserted = @ + Len(rowsOfBatch),
                                          !.log = @ \o rowsOfBatch,
                                          !.i = @ + input.BATCH_SIZE]
           \/ result' = [result EXCEPT !.pc = "retry", !.retry = rowsOfBatch]
    /\ SyncFrame

\* insert([row]) for the next row of the failed batch
SyncRetryRow ==
    /\ result.pc = "retry"
    /\ Len(result.retry) > 0
    /\ LET row  == Head(result.retry)
           rest == [result EXCEPT !.retry = Tail(@)]
       IN  \/ /\ ~Conflicts(<< row >>)
              /\ result' = [rest EXCEPT !.inserted = @ + 1, !.log = Append(@, row)]
           \/ /\ Conflicts(<< row >>)
              /\ result' = [rest EXCEPT !.dupRows = @ \cup {row}]
           \/ result' = [rest EXCEPT !.failed = @ + 1, !.failedRows = @ \cup {row}]
    /\ SyncFrame

\* the retry loop is through: on to the next batch
SyncRetryEnds ==
    /\ result.pc = "retry"
    /\ Len(result.retry) = 0
    /\ result' = [result EXCEPT !.pc = "insert", !.i = @ + input.BATCH_SIZE]
    /\ SyncFrame

\* the batch loop is through: the summary
SyncDone ==
    /\ result.pc = "insert"
    /\ result.i >= Len(result.newRows)
    /\ result' = [result EXCEPT !.pc = "done"]
    /\ SyncFrame

NextSync ==
    \/ SyncScanPage
    \/ SyncFilter
    \/ SyncInsertBatch
    \/ SyncRetryRow
    \/ SyncRetryEnds
    \/ SyncDone

SpecSync == InitSync /\ [][NextSync]_vars

InsertedRows == SeqToSet(result.log)

\* C39: a parsed record whose ufs_url the table held when the scan ran is
\* never inserted; no record is inserted twice; at the end every new record
\* is inserted, failed or duplicate-skipped; and inserted + failed never
\* exceeds the number of new records.
C39_SyncInsertsOnlyNew ==
    /\ \A k \in InsertedRows : input.rows[k] \notin 1 .. input.n
    /\ \A k, l \in 1 .. Len(result.log) : result.log[k] = result.log[l] => k = l
    /\ result.inserted + result.failed <= Len(result.newRows)
    /\ (result.pc = "done")
       => \A k \in SeqToSet(result.newRows) :
            k \in InsertedRows \cup result.failedRows \cup result.dupRows


---------------------------------------------------------------------------
(* SpecCovers: main() of generate_granth_covers.mjs from the fetched rows  *)
(* on - the pdf and eligibility filters, the slice, --dry-run, and the     *)
(* pool of cover workers, one step per awaited call.  Row i of the table   *)
(* has id i.                                                               *)

MaxCoverRows == 3            \* the table has 1..MaxCoverRows rows
MaxCoverConcurrency == 2     \* --concurrency is drawn from 1..MaxCoverConcurrency
MaxCoverLoad == 5            \* rows + concurrency of a run is at most MaxCoverLoad

CoverStarts == 0 .. 1                \* --startAt
CoverLimits == {<< >>, << 1 >>}      \* --limit absent, or 1

OldCover == [cover_image_url |-> "old_url", cover_image_key |-> "old_key"]
NoCover  == [cover_image_url |-> NULL, cover_image_key |-> NULL]
NewCover == [cover_image_url |-> "cover_url", cover_image_key |-> "cover_key"]

\* every row is eligible, covered or not
eligibleRowAlways(row, force) == TRUE

\* (row) => args.force || !row.cover_image_url
eligibleRow(row, force) == force \/ ~Truthy(row.cover_image_url)

\* the ids, in id order, of the rows from k on that pass both filters:
\* rows.filter((row) => isPdfRow(row) && row.ufs_url).filter(eligible)
RECURSIVE eligibleIds(_, _, _)
eligibleIds(rows, force, k) ==
    IF k > Len(rows) THEN << >>
    ELSE (IF rows[k].pdf /\ eligibleRow(rows[k], force) THEN << k >> ELSE << >>)
         \o eligibleIds(rows, force, k + 1)

InitCovers ==
    /\ RunIdle
    /\ DocIdle
    /\ input \in [rows : UNION { [1 .. n -> [pdf : BOOLEAN,
                                             cover_image_url : {NULL, "old_url"}]]
                                 : n \in 1 .. MaxCoverRows },
                  force : BOOLEAN, dryRun : BOOLEAN,
                  concurrency : 1 .. MaxCoverConcurrency,
                  startAt : CoverStarts, limit : CoverLimits]
    /\ Len(input.rows) + input.concurrency <= MaxCoverLoad
    /\ result = [pc |-> "main", queue |-> << >>, next |-> 0, task |-> << >>,
                 table |-> [i \in 1 .. Len(input.rows) |->
                              IF input.rows[i].cover_image_url = NULL
                              THEN NoCover ELSE OldCover],
                 rendered |-> {}, uploaded |-> {}, processedRows |-> {},
                 failedRows |-> {}, processed |-> 0, failed |-> 0]

CoversFrame == UNCHANGED <<storeVars, runVars, refAtStart, docVars, input>>

CoverTasks == 1 .. Len(result.task)

\* the row a worker holds
RowOf(t) == result.queue[result.task[t].idx + 1]

\* the filters, the slice, the two early returns, and runConcurrent's workers
CoversStart ==
    /\ result.pc = "main"
    /\ LET eligible == eligibleIds(input.rows, input.force, 1)
           sliced   == queueCovers(eligible, input.startAt, input.limit)
       IN  result' = [result EXCEPT
              !.queue = sliced,
              !.pc = IF Len(sliced) = 0 \/ input.dryRun THEN "done" ELSE "pool",
              !.task = IF Len(sliced) = 0 \/ input.dryRun THEN << >>
                       ELSE [t \in 1 .. numTasks(input.concurrency, Len(sliced))
                               |-> [pc |-> "loop", idx |-> 0]]]
    /\ CoversFrame

\* const idx = next; next += 1; if (idx >= items.length) return;
CoverPull(t) ==
    /\ result.pc = "pool"
    /\ result.task[t].pc = "loop"
    /\ result' = [result EXCEPT
          !.next = nextAfterPull(@),
          !.task[t] = [pc |-> IF result.next >= Len(result.queue) THEN "returned"
                              ELSE "download",
                       idx |-> result.next]]
    /\ CoversFrame

\* await downloadFile(row.ufs_url, pdfPath) returns
CoverDownload(t) ==
    /\ result.pc = "pool"
    /\ result.task[t].pc = "download"
    /\ result' = [result EXCEPT !.task[t].pc = "render"]
    /\ CoversFrame

\* await renderFirstPageToJpg(...) returns
CoverRender(t) ==
    /\ result.pc = "pool"
    /\ result.task[t].pc = "render"
    /\ result' = [result EXCEPT !.task[t].pc = "upload",
                                !.rendered = @ \cup {RowOf(t)}]
    /\ CoversFrame

\* await uploadCover(...) returns a reference
CoverUpload(t) ==
    /\ result.pc = "pool"
    /\ result.task[t].pc = "upload"
    /\ result' = [result EXCEPT !.task[t].pc = "update",
                                !.uploaded = @ \cup {RowOf(t)}]
    /\ CoversFrame

\* await updateCoverFields(...) returns; processed += 1
CoverUpdate(t) ==
    /\ result.pc = "pool"
    /\ result.task[t].pc = "update"
    /\ result' = [result EXCEPT !.task[t].pc = "finally",
                                !.table[RowOf(t)] = NewCover,
                                !.processedRows = @ \cup {RowOf(t)},
                                !.processed = @ + 1]
    /\ CoversFrame

\* the awaited call of the step rejects: catch, failed += 1
CoverThrows(t) ==
    /\ result.pc = "pool"
    /\ result.task[t].pc \in {"download", "render", "upload", "update"}
    /\ result' = [result EXCEPT !.task[t].pc = "finally",
                                !.failedRows = @ \cup {RowOf(t)},
                                !.failed = @ + 1]
    /\ CoversFrame

\* finally: the two unlinkSafe calls; back to the top of the loop
CoverFinally(t) ==
    /\ result.pc = "pool"
    /\ result.task[t].pc = "finally"
    /\ result' = [result EXCEPT !.task[t].pc = "loop"]
    /\ CoversFrame

\* await Promise.all(workers) resolves: the summary
CoversDone ==
    /\ result.pc = "pool"
    /\ \A t \in CoverTasks : result.task[t].pc = "returned"
    /\ result' = [result EXCEPT !.pc = "done"]
    /\ CoversFrame

NextCovers ==
    \/ CoversStart
    \/ \E t \in CoverTasks :
         \/ CoverPull(t)
         \/ CoverDownload(t)
         \/ CoverRender(t)
         \/ CoverUpload(t)
         \/ CoverUpdate(t)
         \/ CoverThrows(t)
         \/ CoverFinally(t)
    \/ CoversDone

SpecCovers == InitCovers /\ [][NextCovers]_vars

QueuedRows == SeqToSet(result.queue)

InitialCover(i) == IF input.rows[i].cover_image_url = NULL THEN NoCover ELSE OldCover

\* C40: without --force a row that has a cover_image_url is not queued, not
\* rendered, not uploaded, and keeps its two cover fields; a row whose
\* processing failed keeps its two cover fields; and the run ends with
\* every queued row either processed or failed, whatever failed before it.
C40_CoveredAndFailedRowsKept ==
    /\ ~input.force
       => \A i \in 1 .. Len(input.rows) :
            Truthy(input.rows[i].cover_image_url)
            => /\ i \notin QueuedRows \cup result.rendered \cup result.uploaded
               /\ result.table[i] = InitialCover(i)
    /\ \A i \in result.failedRows : result.table[i] = InitialCover(i)
    /\ result.pc = "done" /\ ~input.dryRun
       => /\ result.processedRows \cup result.failedRows = QueuedRows
          /\ result.processed + result.failed = Len(result.queue)

\* a run without --force over a covered row and two uncovered ones: the
\* first queued row failed at its update, the second was processed after it
C40_Witness ==
    /\ result.pc = "done"
    /\ ~input.force
    /\ Len(input.rows) = 3
    /\ Truthy(input.rows[1].cover_image_url)
    /\ result.queue = << 2, 3 >>
    /\ 2 \in result.uploaded
    /\ result.failedRows = {2}
    /\ result.processedRows = {3}
    /\ result.table[3] = NewCover

====
